---- MODULE Spec2Model ----
(***************************************************************************)
(* Model of the ExchangeEmulator execution engine: the Exchange            *)
(* (src/exchange.go) and the Emulator that replays bars into it            *)
(* (src/unnamed/part_001).                                                 *)
(*                                                                         *)
(* float64 quantities are modelled as exact rationals <<n, d>> in lowest   *)
(* terms with d > 0; the input domains below keep every value finite and   *)
(* far from the float64 range limits.                                      *)
(***************************************************************************)
EXTENDS Integers, Sequences, FiniteSets, TLC

(***************************************************************************)
(* float64 arithmetic.  Every operator takes the values it uses more than  *)
(* once as parameters, so that each is computed once.                      *)
(***************************************************************************)
RECURSIVE GCD(_, _)
GCD(a, b) == IF b = 0 THEN a ELSE GCD(b, a % b)

IAbs(i) == IF i < 0 THEN -i ELSE i

FNorm(n, d, g) == IF d < 0 THEN <<(-n) \div g, (-d) \div g>> ELSE <<n \div g, d \div g>>

\* the float64 value n/d
F(n, d) == FNorm(n, d, GCD(IAbs(n), IAbs(d)))

Zero == <<0, 1>>

One == <<1, 1>>

FNeg(a) == <<-a[1], a[2]>>

FAddG(a, b, g) == F(a[1] * (b[2] \div g) + b[1] * (a[2] \div g), (a[2] \div g) * b[2])

FAdd(a, b) == FAddG(a, b, GCD(a[2], b[2]))

FSub(a, b) == FAdd(a, FNeg(b))

FMulG(a, b, g1, g2) == <<(a[1] \div g1) * (b[1] \div g2), (a[2] \div g2) * (b[2] \div g1)>>

FMul(a, b) == FMulG(a, b, GCD(IAbs(a[1]), b[2]), GCD(IAbs(b[1]), a[2]))

\* a / b for b # 0
FDiv(a, b) == IF b[1] < 0 THEN FMul(a, <<-b[2], -b[1]>>) ELSE FMul(a, <<b[2], b[1]>>)

FLt(a, b) == FSub(a, b)[1] < 0

FLe(a, b) == FSub(a, b)[1] <= 0

FAbs(a) == <<IAbs(a[1]), a[2]>>

(***************************************************************************)
(* Types and constants of exchange.go                                      *)
(***************************************************************************)
SideBuy == "buy"

SideSell == "sell"

ReasonEntryLong == "entry-long"

ReasonEntryShort == "entry-short"

ReasonExit == "exit"

ReasonStopLoss == "stop-loss"

ReasonLiquidate == "liquidation"

pendingOpenLong == 1

pendingOpenShort == 2

pendingClose == 3

ErrNone == "nil"

ErrSymbolMismatch == "symbol mismatch"

ErrPriceNotSet == "price not set"

ErrPositionOpen == "position already open"

ErrNoPosition == "no open position"

ErrInvalidFraction == "fraction must be in (0, 1]"

ErrPriceNotPositive == "price must be positive"

ErrNoMoreBars == "no more bars"

\* the zero value of OHLCBar
ZeroBar == [Open |-> Zero, High |-> Zero, Low |-> Zero, Close |-> Zero, Average |-> Zero]

\* value := (open + high + low + close) / 4 of the loader, as BarsFromSeries stores it
MkBar(o, h, l, c) ==
    [Open |-> o, High |-> h, Low |-> l, Close |-> c,
     Average |-> FDiv(FAdd(FAdd(o, h), FAdd(l, c)), F(4, 1))]

(***************************************************************************)
(* Exchange: construction, queries and the pricing model.  An Exchange     *)
(* value is a record holding the fields of the Go struct.                  *)
(***************************************************************************)
NewExchange(symbol, startUSD, fee, slippagePct, spreadPct) ==
    LET manual == ~(FLt(spreadPct, Zero) \/ FLe(One, spreadPct))
    IN  [symbol |-> symbol,
         fee |-> IF FLt(fee, Zero) THEN Zero ELSE fee,
         usd |-> IF FLt(startUSD, Zero) THEN Zero ELSE startUSD,
         slippagePct |-> IF FLt(slippagePct, Zero) \/ FLe(One, slippagePct)
                         THEN Zero ELSE slippagePct,
         spreadPct |-> IF manual THEN spreadPct ELSE Zero,
         spreadManual |-> manual,
         prevPrice |-> Zero, position |-> Zero, entryPrice |-> Zero, shortCash |-> Zero,
         shortMargin |-> Zero, lastPrice |-> Zero, tick |-> 0, orders |-> <<>>,
         nextID |-> 0, nextLimitID |-> 0, pending |-> <<>>, executedByID |-> <<>>,
         limitFailed |-> [price_not_in_hl |-> 0, position_state_mismatch |-> 0],
         misses |-> <<>>, lastBar |-> ZeroBar, hasLastBar |-> FALSE]

\* equity := usd + shortCash + shortMargin, plus position * price when price > 0
equityAt(e, price) ==
    IF FLt(Zero, price)
    THEN FAdd(FAdd(FAdd(e.usd, e.shortCash), e.shortMargin), FMul(e.position, price))
    ELSE FAdd(FAdd(e.usd, e.shortCash), e.shortMargin)

\* faulty variant of Balance: a position is valued at its entry price
BalanceAtEntry(e) ==
    [USD |-> e.usd, Position |-> e.position, ShortCash |-> e.shortCash,
     ShortMargin |-> e.shortMargin,
     Equity |-> equityAt(e, IF FLe(e.entryPrice, Zero) THEN e.lastPrice ELSE e.entryPrice),
     EntryPrice |-> e.entryPrice, LastPrice |-> e.lastPrice]

Balance(e) ==
    [USD |-> e.usd, Position |-> e.position, ShortCash |-> e.shortCash,
     ShortMargin |-> e.shortMargin,
     Equity |-> equityAt(e, IF FLe(e.lastPrice, Zero) THEN e.entryPrice ELSE e.lastPrice),
     EntryPrice |-> e.entryPrice, LastPrice |-> e.lastPrice]

Orders(e) == e.orders

applySpread(e, side, price) ==
    IF FLe(price, Zero) THEN price
    ELSE IF FLe(e.spreadPct, Zero) THEN price
    ELSE IF side = SideBuy THEN FMul(price, FAdd(One, FDiv(e.spreadPct, F(2, 1))))
    ELSE IF side = SideSell THEN FMul(price, FSub(One, FDiv(e.spreadPct, F(2, 1))))
    ELSE price

applySlippage(e, side, price) ==
    IF FLe(price, Zero) THEN price
    ELSE IF FLe(e.slippagePct, Zero) THEN price
    ELSE IF side = SideBuy THEN FMul(price, FAdd(One, e.slippagePct))
    ELSE IF side = SideSell THEN FMul(price, FSub(One, e.slippagePct))
    ELSE price

execPrice(e, side, mid) == applySlippage(e, side, applySpread(e, side, mid))

\* s clamped to [minS, maxS] = [0.5bp, 20bp]
\* faulty variant of clampSpread: the upper limit is 200bp
clampSpreadWide(s) ==
    IF FLt(s, F(5, 100000)) THEN F(5, 100000)
    ELSE IF FLt(F(200, 10000), s) THEN F(200, 10000)
    ELSE s

clampSpread(s) ==
    IF FLt(s, F(5, 100000)) THEN F(5, 100000)
    ELSE IF FLt(F(20, 10000), s) THEN F(20, 10000)
    ELSE s

\* faulty variant of updateSpread: the dynamic model runs in manual mode too
updateSpreadAlways(e, price) ==
    IF FLe(price, Zero) THEN e
    ELSE [e EXCEPT !.prevPrice = price,
                   !.spreadPct =
                       clampSpread(FAdd(F(1, 10000),
                           IF FLt(Zero, e.prevPrice)
                           THEN FMul(FDiv(FAbs(FSub(price, e.prevPrice)), e.prevPrice),
                                     F(1, 100))
                           ELSE Zero))]

\* base 1bp, plus 1% of the absolute return, clamped
updateSpread(e, price) ==
    IF e.spreadManual THEN [e EXCEPT !.prevPrice = price]
    ELSE IF FLe(price, Zero) THEN e
    ELSE [e EXCEPT !.prevPrice = price,
                   !.spreadPct =
                       clampSpread(FAdd(F(1, 10000),
                           IF FLt(Zero, e.prevPrice)
                           THEN FMul(FDiv(FAbs(FSub(price, e.prevPrice)), e.prevPrice),
                                     F(1, 100))
                           ELSE Zero))]

\* the Order recordOrder builds from the post-trade state e and its Balance bal
newOrder(e, bal, side, qty, mid, exec, feeUSD, execPnL, equityBefore, reason, stopKind, placedTick) ==
    [ID |-> e.nextID + 1, Symbol |-> e.symbol, Side |-> side, Qty |-> qty, MidPrice |-> mid,
     Price |-> exec, Fee |-> feeUSD, ExecPnL |-> execPnL, EquityBefore |-> equityBefore,
     Reason |-> reason, StopKind |-> stopKind, PositionAfter |-> e.position, USD |-> e.usd,
     ShortCash |-> bal.ShortCash, ShortMargin |-> bal.ShortMargin, Equity |-> bal.Equity,
     EntryPrice |-> bal.EntryPrice, Tick |-> e.tick, PlacedTick |-> placedTick,
     SpreadPct |-> e.spreadPct, SlippagePct |-> e.slippagePct]

\* faulty variant of recordOrder: the id counter is not advanced
recordOrderSameID(e, side, qty, mid, exec, feeUSD, execPnL, equityBefore, reason, stopKind, placedTick) ==
    [e EXCEPT !.orders = Append(@, newOrder(e, Balance(e), side, qty, mid, exec, feeUSD,
                                            execPnL, equityBefore, reason, stopKind,
                                            placedTick))]

\* appends the order to the history; the order returned is the last of .orders
recordOrder(e, side, qty, mid, exec, feeUSD, execPnL, equityBefore, reason, stopKind, placedTick) ==
    [e EXCEPT !.nextID = @ + 1,
              !.orders = Append(@, newOrder(e, Balance(e), side, qty, mid, exec, feeUSD,
                                            execPnL, equityBefore, reason, stopKind,
                                            placedTick))]

\* the Order the recordOrder call that produced e returned
Recorded(e) == e.orders[Len(e.orders)]

\* results of a call that returns (*Order, error): order is <<>> for nil
Failed(e, err) == [e |-> e, order |-> <<>>, err |-> err]

Done(e, order) == [e |-> e, order |-> <<order>>, err |-> ErrNone]

\* an open recorded its order in e
Opened(e) == Done(e, Recorded(e))

\* faulty variant of Closed: lastPrice stays at the closing price
ClosedAtClosingPrice(e, savedLast) == [e |-> e, order |-> Recorded(e)]

\* a close recorded its order in e; lastPrice is restored
Closed(e, savedLast) == [e |-> [e EXCEPT !.lastPrice = savedLast], order |-> Recorded(e)]

(***************************************************************************)
(* Exchange: executions                                                    *)
(***************************************************************************)
\* faulty variant of openLongFill: the fee is charged on top of the notional
openLongFillFeeOnTop(e, mid, notional, feeUSD, exec, qty, placedTick) ==
    Opened(recordOrder([e EXCEPT !.usd = FSub(@, FAdd(notional, feeUSD)), !.position = qty,
                                 !.entryPrice = exec],
                       SideBuy, qty, mid, exec, feeUSD, FMul(qty, FSub(mid, exec)),
                       Balance(e).Equity, ReasonEntryLong, "", placedTick))

\* faulty variant of openLongFill: usd is debited by the amount net of the fee
openLongFillDebitsNet(e, mid, notional, feeUSD, exec, qty, placedTick) ==
    Opened(recordOrder([e EXCEPT !.usd = FSub(@, FSub(notional, feeUSD)), !.position = qty,
                                 !.entryPrice = exec],
                       SideBuy, qty, mid, exec, feeUSD, FMul(qty, FSub(mid, exec)),
                       Balance(e).Equity, ReasonEntryLong, "", placedTick))

openLongFill(e, mid, notional, feeUSD, exec, qty, placedTick) ==
    Opened(recordOrder([e EXCEPT !.usd = FSub(@, notional), !.position = qty,
                                 !.entryPrice = exec],
                       SideBuy, qty, mid, exec, feeUSD, FMul(qty, FSub(mid, exec)),
                       Balance(e).Equity, ReasonEntryLong, "", placedTick))

openLongNet(e, price, notional, feeUSD, net, placedTick) ==
    IF FLe(net, Zero) THEN Failed(e, ErrInvalidFraction)
    ELSE openLongFill(e, price, notional, feeUSD, execPrice(e, SideBuy, price),
                      FDiv(net, execPrice(e, SideBuy, price)), placedTick)

openLongNotional(e, price, notional, placedTick) ==
    IF FLe(notional, Zero) THEN Failed(e, ErrInvalidFraction)
    ELSE openLongNet(e, price, notional, FMul(notional, e.fee),
                     FSub(notional, FMul(notional, e.fee)), placedTick)

\* faulty variant of openLongAtPrice: an existing position is not checked
openLongAtPriceAnyPosition(e, price, fraction, placedTick) ==
    IF FLe(e.lastPrice, Zero) THEN Failed(e, ErrPriceNotSet)
    ELSE IF FLe(fraction, Zero) \/ FLt(One, fraction) THEN Failed(e, ErrInvalidFraction)
    ELSE openLongNotional(e, IF FLe(price, Zero) THEN e.lastPrice ELSE price,
                          FMul(e.usd, fraction), placedTick)

openLongAtPrice(e, price, fraction, placedTick) ==
    IF e.position # Zero THEN Failed(e, ErrPositionOpen)
    ELSE IF FLe(e.lastPrice, Zero) THEN Failed(e, ErrPriceNotSet)
    ELSE IF FLe(fraction, Zero) \/ FLt(One, fraction) THEN Failed(e, ErrInvalidFraction)
    ELSE openLongNotional(e, IF FLe(price, Zero) THEN e.lastPrice ELSE price,
                          FMul(e.usd, fraction), placedTick)

\* faulty variant of openShortFill: the fee is not taken out of shortCash
openShortFillKeepsFee(e, mid, notional, feeUSD, net, exec, qty, placedTick) ==
    Opened(recordOrder([e EXCEPT !.usd = FSub(@, notional),
                                 !.shortMargin = FAdd(@, notional),
                                 !.shortCash = FAdd(@, notional),
                                 !.position = FNeg(qty), !.entryPrice = exec],
                       SideSell, qty, mid, exec, feeUSD, FMul(qty, FSub(exec, mid)),
                       Balance(e).Equity, ReasonEntryShort, "", placedTick))

openShortFill(e, mid, notional, feeUSD, net, exec, qty, placedTick) ==
    Opened(recordOrder([e EXCEPT !.usd = FSub(@, notional),
                                 !.shortMargin = FAdd(@, notional),
                                 !.shortCash = FAdd(@, net),
                                 !.position = FNeg(qty), !.entryPrice = exec],
                       SideSell, qty, mid, exec, feeUSD, FMul(qty, FSub(exec, mid)),
                       Balance(e).Equity, ReasonEntryShort, "", placedTick))

openShortNet(e, price, notional, feeUSD, net, placedTick) ==
    IF FLe(net, Zero) THEN Failed(e, ErrInvalidFraction)
    ELSE openShortFill(e, price, notional, feeUSD, net, execPrice(e, SideSell, price),
                       FDiv(notional, execPrice(e, SideSell, price)), placedTick)

openShortNotional(e, price, notional, placedTick) ==
    IF FLe(notional, Zero) THEN Failed(e, ErrInvalidFraction)
    ELSE openShortNet(e, price, notional, FMul(notional, e.fee),
                      FSub(notional, FMul(notional, e.fee)), placedTick)

openShortAtPrice(e, price, fraction, placedTick) ==
    IF e.position # Zero THEN Failed(e, ErrPositionOpen)
    ELSE IF FLe(e.lastPrice, Zero) THEN Failed(e, ErrPriceNotSet)
    ELSE IF FLe(fraction, Zero) \/ FLt(One, fraction) THEN Failed(e, ErrInvalidFraction)
    ELSE openShortNotional(e, IF FLe(price, Zero) THEN e.lastPrice ELSE price,
                           FMul(e.usd, fraction), placedTick)

\* faulty variant of closeLongFill: entryPrice is left behind
closeLongFillKeepEntry(e, savedLast, mid, exec, qty, revenue, feeUSD, reason, stopKind) ==
    Closed(recordOrder([e EXCEPT !.usd = FAdd(@, FSub(revenue, feeUSD)), !.position = Zero],
                       SideSell, qty, mid, exec, feeUSD, FMul(qty, FSub(exec, mid)),
                       Balance(e).Equity, reason, stopKind, e.tick),
           savedLast)

\* closing a long: sell everything, credit the revenue net of the fee
closeLongFill(e, savedLast, mid, exec, qty, revenue, feeUSD, reason, stopKind) ==
    Closed(recordOrder([e EXCEPT !.usd = FAdd(@, FSub(revenue, feeUSD)), !.position = Zero,
                                 !.entryPrice = Zero],
                       SideSell, qty, mid, exec, feeUSD, FMul(qty, FSub(exec, mid)),
                       Balance(e).Equity, reason, stopKind, e.tick),
           savedLast)

closeLongAt(e, savedLast, mid, exec, revenue, reason, stopKind) ==
    closeLongFill(e, savedLast, mid, exec, e.position, revenue, FMul(revenue, e.fee),
                  reason, stopKind)

closeLong(e, savedLast, price, reason, stopKind) ==
    closeLongAt(e, savedLast, price, execPrice(e, SideSell, price),
                FMul(e.position, execPrice(e, SideSell, price)), reason, stopKind)

\* faulty variant of liquidate: the free usd balance survives
liquidateKeepUSD(e, savedLast, mid, exec, qty, feeUSD, equityBefore) ==
    Closed(recordOrder([e EXCEPT !.shortCash = Zero, !.shortMargin = Zero,
                                 !.position = Zero, !.entryPrice = Zero],
                       SideBuy, qty, mid, exec, feeUSD, FNeg(equityBefore), equityBefore,
                       ReasonLiquidate, "", e.tick),
           savedLast)

\* faulty variant of liquidate: the margin account survives
liquidateKeepMargin(e, savedLast, mid, exec, qty, feeUSD, equityBefore) ==
    Closed(recordOrder([e EXCEPT !.usd = Zero, !.shortCash = Zero,
                                 !.position = Zero, !.entryPrice = Zero],
                       SideBuy, qty, mid, exec, feeUSD, FNeg(equityBefore), equityBefore,
                       ReasonLiquidate, "", e.tick),
           savedLast)

\* liquidation wipes equity: the PnL is minus the equity lost, the fee is not netted
liquidate(e, savedLast, mid, exec, qty, feeUSD, equityBefore) ==
    Closed(recordOrder([e EXCEPT !.usd = Zero, !.shortCash = Zero, !.shortMargin = Zero,
                                 !.position = Zero, !.entryPrice = Zero],
                       SideBuy, qty, mid, exec, feeUSD, FNeg(equityBefore), equityBefore,
                       ReasonLiquidate, "", e.tick),
           savedLast)

\* what the buy-back leaves: paid from shortCash first, then from shortMargin
cashLeft(e, total) == IF FLe(total, e.shortCash) THEN FSub(e.shortCash, total) ELSE Zero

marginLeft(e, total) ==
    IF FLe(total, e.shortCash) THEN e.shortMargin
    ELSE IF FLt(FSub(e.shortMargin, FSub(total, e.shortCash)), Zero) THEN Zero
    ELSE FSub(e.shortMargin, FSub(total, e.shortCash))

\* faulty variant of coverShort: what is left of shortCash is not returned to usd
coverShortDropsCash(e, savedLast, mid, exec, qty, feeUSD, total, reason, stopKind) ==
    Closed(recordOrder([e EXCEPT !.position = Zero, !.entryPrice = Zero,
                                 !.usd = FAdd(@, marginLeft(e, total)),
                                 !.shortCash = Zero, !.shortMargin = Zero],
                       SideBuy, qty, mid, exec, feeUSD, FMul(qty, FSub(mid, exec)),
                       Balance(e).Equity, reason, stopKind, e.tick),
           savedLast)

coverShort(e, savedLast, mid, exec, qty, feeUSD, total, reason, stopKind) ==
    Closed(recordOrder([e EXCEPT !.position = Zero, !.entryPrice = Zero,
                                 !.usd = FAdd(@, FAdd(cashLeft(e, total), marginLeft(e, total))),
                                 !.shortCash = Zero, !.shortMargin = Zero],
                       SideBuy, qty, mid, exec, feeUSD, FMul(qty, FSub(mid, exec)),
                       Balance(e).Equity, reason, stopKind, e.tick),
           savedLast)

closeShortTotal(e, savedLast, mid, exec, qty, feeUSD, total, reason, stopKind) ==
    IF FLt(FAdd(e.shortCash, e.shortMargin), total)
    THEN liquidate(e, savedLast, mid, exec, qty, feeUSD, Balance(e).Equity)
    ELSE coverShort(e, savedLast, mid, exec, qty, feeUSD, total, reason, stopKind)

closeShortCost(e, savedLast, mid, exec, qty, cost, reason, stopKind) ==
    closeShortTotal(e, savedLast, mid, exec, qty, FMul(cost, e.fee),
                    FAdd(cost, FMul(cost, e.fee)), reason, stopKind)

\* closing a short: buy back -position
closeShort(e, savedLast, price, reason, stopKind) ==
    closeShortCost(e, savedLast, price, execPrice(e, SideBuy, price), FNeg(e.position),
                   FMul(FNeg(e.position), execPrice(e, SideBuy, price)), reason, stopKind)

\* closing while flat records an empty order
closeFlat(e, savedLast, price, reason, stopKind) ==
    Closed(recordOrder(e, SideBuy, Zero, price, price, Zero, Zero, Balance(e).Equity,
                       reason, stopKind, e.tick),
           savedLast)

\* the close proper, with lastPrice already set to the closing price
closeFrom(e, savedLast, price, reason, stopKind) ==
    IF FLt(Zero, e.position) THEN closeLong(e, savedLast, price, reason, stopKind)
    ELSE IF FLt(e.position, Zero) THEN closeShort(e, savedLast, price, reason, stopKind)
    ELSE closeFlat(e, savedLast, price, reason, stopKind)

\* equity and the record are valued with lastPrice set to the closing price
closeAtPrice(e, price, reason, stopKind) ==
    closeFrom([e EXCEPT !.lastPrice = price], e.lastPrice, price, reason, stopKind)

(***************************************************************************)
(* Exchange: the pending-limit queue                                       *)
(***************************************************************************)
pendingKindName(kind) ==
    IF kind = pendingOpenLong THEN "open_long"
    ELSE IF kind = pendingOpenShort THEN "open_short"
    ELSE IF kind = pendingClose THEN "close"
    ELSE "unknown"

\* faulty variant of priceInRange: the range is taken as open
priceInRangeOpen(price, low, high) ==
    IF FLe(price, Zero) \/ FLe(low, Zero) \/ FLe(high, Zero) THEN FALSE
    ELSE LET lo == IF FLt(high, low) THEN high ELSE low
             hi == IF FLt(high, low) THEN low ELSE high
         IN  FLt(lo, price) /\ FLt(price, hi)

\* faulty variant of priceInRange: low and high are taken as given
priceInRangeAsGiven(price, low, high) ==
    IF FLe(price, Zero) \/ FLe(low, Zero) \/ FLe(high, Zero) THEN FALSE
    ELSE FLe(low, price) /\ FLe(price, high)

priceInRange(price, low, high) ==
    IF FLe(price, Zero) \/ FLe(low, Zero) \/ FLe(high, Zero) THEN FALSE
    ELSE LET lo == IF FLt(high, low) THEN high ELSE low
             hi == IF FLt(high, low) THEN low ELSE high
         IN  FLe(lo, price) /\ FLe(price, hi)

LimitMiss(reason, p, checkTick, bar) ==
    [Reason |-> reason, Kind |-> pendingKindName(p.kind), LimitPrice |-> p.price,
     PlacedTick |-> p.placedAtTick, CheckTick |-> checkTick, PrevBar |-> p.placedBar,
     CurrBar |-> bar]

\* faulty variant of headMiss: the head that failed to match is skipped
headMissDrop(e, p, bar) ==
    [e EXCEPT !.pending = Tail(@),
              !.limitFailed.price_not_in_hl = @ + 1,
              !.misses = Append(@, LimitMiss("price_not_in_hl", p, e.tick, bar))]

\* the head failed to match: it keeps its place, the miss is counted and logged
headMiss(e, p, bar) ==
    [e EXCEPT !.pending[1].lastReason = "price_not_in_hl",
              !.limitFailed.price_not_in_hl = @ + 1,
              !.misses = Append(@, LimitMiss("price_not_in_hl", p, e.tick, bar))]

\* faulty variant of dropMismatch: the drop is not counted
dropUncounted(e) == [e EXCEPT !.pending = Tail(@)]

\* the head conflicts with the position: dropped and counted
dropMismatch(e) ==
    [e EXCEPT !.limitFailed.position_state_mismatch = @ + 1, !.pending = Tail(@)]

\* faulty variant of popExecuted: the whole queue is discarded with the head
popExecutedAll(e, p, executed) ==
    [e EXCEPT !.pending = <<>>,
              !.executedByID = IF executed = <<>> THEN @
                               ELSE [i \in DOMAIN @ \cup {p.id} |->
                                        IF i = p.id THEN executed[1] ELSE @[i]]]

\* the head's order call has returned executed (<<>> for nil): pop the head and
\* remember the order under the pending id
popExecuted(e, p, executed) ==
    [e EXCEPT !.pending = Tail(@),
              !.executedByID = IF executed = <<>> THEN @
                               ELSE [i \in DOMAIN @ \cup {p.id} |->
                                        IF i = p.id THEN executed[1] ELSE @[i]]]

\* a filled close: the copy returned carries the placement tick, the history entry does not
placedAt(c, placedTick) == Done(c.e, [c.order EXCEPT !.PlacedTick = placedTick])

\* faulty variant of executeHead: the head executes at the bar's close
executeHeadAtClose(e, p) ==
    IF p.kind = pendingOpenLong
    THEN openLongAtPrice(e, e.lastPrice, p.fraction, p.placedAtTick)
    ELSE IF p.kind = pendingOpenShort
    THEN openShortAtPrice(e, e.lastPrice, p.fraction, p.placedAtTick)
    ELSE placedAt(closeAtPrice(e, e.lastPrice, p.reason, p.stopKind), p.placedAtTick)

\* the head's order call; an error of the open is discarded
executeHead(e, p) ==
    IF p.kind = pendingOpenLong THEN openLongAtPrice(e, p.price, p.fraction, p.placedAtTick)
    ELSE IF p.kind = pendingOpenShort
    THEN openShortAtPrice(e, p.price, p.fraction, p.placedAtTick)
    ELSE placedAt(closeAtPrice(e, p.price, p.reason, p.stopKind), p.placedAtTick)

\* the head conflicts with the position: an open while positioned, a close while flat
headMismatch(e, p) ==
    IF p.kind = pendingClose THEN e.position = Zero ELSE e.position # Zero

\* faulty variant of headDue: the tick after the placement is skipped too
headDueLate(e, p) == e.tick > p.placedAtTick + 1

\* the head may be tried in this tick
headDue(e, p) == e.tick > p.placedAtTick

\* loop state after the head executed with result r
afterHead(r, p, firstExecuted) ==
    [e |-> popExecuted(r.e, p, r.order),
     first |-> IF firstExecuted = <<>> THEN r.order ELSE firstExecuted]

\* the drain loop of processPending on loop state st = [e, first]
RECURSIVE drainPending(_, _)
drainPending(st, bar) ==
    IF Len(st.e.pending) = 0 THEN st
    ELSE IF ~headDue(st.e, st.e.pending[1]) THEN st
    ELSE IF ~priceInRange(st.e.pending[1].price, bar.Low, bar.High)
    THEN [st EXCEPT !.e = headMiss(@, @.pending[1], bar)]
    ELSE IF headMismatch(st.e, st.e.pending[1])
    THEN drainPending([st EXCEPT !.e = dropMismatch(@)], bar)
    ELSE drainPending(afterHead(executeHead(st.e, st.e.pending[1]), st.e.pending[1],
                                st.first), bar)

\* the loop that follows: entries behind the head that were due are logged as blocked
RECURSIVE markBlocked(_, _, _)
markBlocked(e, bar, i) ==
    IF i > Len(e.pending) THEN e
    ELSE IF e.tick > e.pending[i].placedAtTick
    THEN markBlocked([e EXCEPT !.pending[i].lastReason = "blocked_by_fifo_head",
                               !.misses = Append(@, LimitMiss("blocked_by_fifo_head",
                                                              e.pending[i], e.tick, bar))],
                     bar, i + 1)
    ELSE markBlocked(e, bar, i + 1)

\* faulty variant of afterDrain: the head is logged as blocked as well
afterDrainFromHead(st, bar) == [e |-> markBlocked(st.e, bar, 1), first |-> st.first]

\* the drain loop has stopped in loop state st
afterDrain(st, bar) == [e |-> markBlocked(st.e, bar, 2), first |-> st.first]

processPending(e, bar) ==
    IF Len(e.pending) = 0 THEN [e |-> e, first |-> <<>>]
    ELSE afterDrain(drainPending([e |-> e, first |-> <<>>], bar), bar)

\* processPending has returned r
afterPending(r, bar) ==
    [e |-> [r.e EXCEPT !.lastBar = bar, !.hasLastBar = TRUE], order |-> r.first,
     err |-> ErrNone]

\* faulty variant of tickBarAt: the tick is stamped before the bar is validated
tickBarAtStamped(e, symbol, tick, bar) ==
    IF symbol # e.symbol THEN Failed(e, ErrSymbolMismatch)
    ELSE IF FLe(bar.Close, Zero)
         THEN Failed([e EXCEPT !.tick = IF tick < 0 THEN 0 ELSE tick], ErrPriceNotPositive)
    ELSE afterPending(
             processPending([updateSpread([e EXCEPT !.tick = IF tick < 0 THEN 0 ELSE tick],
                                          bar.Close)
                                EXCEPT !.lastPrice = bar.Close],
                            bar),
             bar)

tickBarAt(e, symbol, tick, bar) ==
    IF symbol # e.symbol THEN Failed(e, ErrSymbolMismatch)
    ELSE IF FLe(bar.Close, Zero) THEN Failed(e, ErrPriceNotPositive)
    ELSE afterPending(
             processPending([updateSpread([e EXCEPT !.tick = IF tick < 0 THEN 0 ELSE tick],
                                          bar.Close)
                                EXCEPT !.lastPrice = bar.Close],
                            bar),
             bar)

(***************************************************************************)
(* Exchange: limit diagnostics                                             *)
(***************************************************************************)
\* the keys a Reasons map can hold; a key that is absent from a Go map reads as 0
ReasonKeys ==
    {"price_not_in_hl", "position_state_mismatch", "await_next_candle",
     "blocked_by_fifo_head", "unknown"}

\* the key a queued entry is counted under
reasonOf(p) == IF p.lastReason = "" THEN "unknown" ELSE p.lastReason

\* faulty variant of LimitDiagnostics: only the queue is counted
LimitDiagnosticsQueueOnly(e) ==
    [e |-> e,
     diag |-> [PendingTotal |-> Len(e.pending),
               Reasons |-> [k \in ReasonKeys |->
                               Cardinality({i \in 1..Len(e.pending) :
                                               reasonOf(e.pending[i]) = k})],
               Misses |-> e.misses]]

\* the counts of limitFailed, then one per queued entry under its last reason; Misses
\* is a copy of the miss log; e is the Exchange the call leaves
LimitDiagnostics(e) ==
    [e |-> e,
     diag |-> [PendingTotal |-> e.limitFailed.price_not_in_hl
                                + e.limitFailed.position_state_mismatch + Len(e.pending),
               Reasons |-> [k \in ReasonKeys |->
                               (IF k \in DOMAIN e.limitFailed THEN e.limitFailed[k] ELSE 0)
                               + Cardinality({i \in 1..Len(e.pending) :
                                                 reasonOf(e.pending[i]) = k})],
               Misses |-> e.misses]]

(***************************************************************************)
(* Exchange: the public order calls                                        *)
(***************************************************************************)
OpenLong(e, fraction) == openLongAtPrice(e, e.lastPrice, fraction, e.tick)

OpenShort(e, fraction) == openShortAtPrice(e, e.lastPrice, fraction, e.tick)

\* faulty variant of CloseDeal: a flat Exchange is not refused
CloseDealWhileFlat(e, reason) ==
    IF FLe(e.lastPrice, Zero) THEN Failed(e, ErrPriceNotSet)
    ELSE placedAt(closeAtPrice(e, e.lastPrice, IF reason = "" THEN ReasonExit ELSE reason, ""),
                  e.tick)

CloseDeal(e, reason) ==
    IF e.position = Zero THEN Failed(e, ErrNoPosition)
    ELSE IF FLe(e.lastPrice, Zero) THEN Failed(e, ErrPriceNotSet)
    ELSE placedAt(closeAtPrice(e, e.lastPrice, IF reason = "" THEN ReasonExit ELSE reason, ""),
                  e.tick)

\* result of a call that returns (int64, error)
Placed(e, id, err) == [e |-> e, id |-> id, err |-> err]

\* faulty variant of enqueue: the entry records the tick before the current one
enqueueStale(e, kind, price, fraction, reason, stopKind) ==
    Placed([e EXCEPT !.nextLimitID = @ + 1,
                     !.pending = Append(@, [id |-> e.nextLimitID + 1, kind |-> kind,
                                            price |-> price, fraction |-> fraction,
                                            reason |-> reason, stopKind |-> stopKind,
                                            placedAtTick |-> e.tick - 1,
                                            lastReason |-> "await_next_candle",
                                            placedBar |-> e.lastBar])],
           e.nextLimitID + 1, ErrNone)

\* faulty variant of enqueue: the entry is put in front of the queue
enqueueAtHead(e, kind, price, fraction, reason, stopKind) ==
    Placed([e EXCEPT !.nextLimitID = @ + 1,
                     !.pending = <<[id |-> e.nextLimitID + 1, kind |-> kind,
                                    price |-> price, fraction |-> fraction,
                                    reason |-> reason, stopKind |-> stopKind,
                                    placedAtTick |-> e.tick,
                                    lastReason |-> "await_next_candle",
                                    placedBar |-> e.lastBar]>> \o @],
           e.nextLimitID + 1, ErrNone)

enqueue(e, kind, price, fraction, reason, stopKind) ==
    Placed([e EXCEPT !.nextLimitID = @ + 1,
                     !.pending = Append(@, [id |-> e.nextLimitID + 1, kind |-> kind,
                                            price |-> price, fraction |-> fraction,
                                            reason |-> reason, stopKind |-> stopKind,
                                            placedAtTick |-> e.tick,
                                            lastReason |-> "await_next_candle",
                                            placedBar |-> e.lastBar])],
           e.nextLimitID + 1, ErrNone)

\* a limit price <= 0 stands for lastPrice
limitPrice(e, price) == IF FLe(price, Zero) THEN e.lastPrice ELSE price

\* variant of LongLimit that refuses a fraction of no funds, as the market open does
LongLimitFunded(e, price, fraction) ==
    IF FLe(limitPrice(e, price), Zero) THEN Placed(e, 0, ErrPriceNotSet)
    ELSE IF FLe(fraction, Zero) \/ FLt(One, fraction) \/ FLe(FMul(e.usd, fraction), Zero)
    THEN Placed(e, 0, ErrInvalidFraction)
    ELSE enqueue(e, pendingOpenLong, limitPrice(e, price), fraction, "", "")

LongLimit(e, price, fraction) ==
    IF FLe(limitPrice(e, price), Zero) THEN Placed(e, 0, ErrPriceNotSet)
    ELSE IF FLe(fraction, Zero) \/ FLt(One, fraction) THEN Placed(e, 0, ErrInvalidFraction)
    ELSE enqueue(e, pendingOpenLong, limitPrice(e, price), fraction, "", "")

ShortLimit(e, price, fraction) ==
    IF FLe(limitPrice(e, price), Zero) THEN Placed(e, 0, ErrPriceNotSet)
    ELSE IF FLe(fraction, Zero) \/ FLt(One, fraction) THEN Placed(e, 0, ErrInvalidFraction)
    ELSE enqueue(e, pendingOpenShort, limitPrice(e, price), fraction, "", "")

CloseLimit(e, price, reason, stopKind) ==
    IF FLe(limitPrice(e, price), Zero) THEN Placed(e, 0, ErrPriceNotSet)
    ELSE enqueue(e, pendingClose, limitPrice(e, price), Zero,
                 IF reason = "" THEN ReasonExit ELSE reason, stopKind)

(***************************************************************************)
(* Bounds and input domains                                                *)
(***************************************************************************)
\* order calls are explored until this many of them have succeeded
MaxCalls == 3

Symbols == {"enj"}

\* constructor arguments (startUSD, fee, slippagePct, spreadPct)
CfgTrade == [startUSD |-> F(1000, 1), fee |-> F(1, 10), slippagePct |-> Zero, spreadPct |-> Zero]

\* a fee of 100%: no open can leave a positive net amount
CfgFullFee == [startUSD |-> F(100, 1), fee |-> One, slippagePct |-> Zero, spreadPct |-> Zero]

\* every argument out of range: clamped to usd 0, fee 0, slippage 0, dynamic spread
CfgClamped == [startUSD |-> F(-5, 1), fee |-> F(-1, 10), slippagePct |-> One, spreadPct |-> One]

BarLo == MkBar(One, One, One, One)

BarHi == MkBar(F(2, 1), F(2, 1), F(2, 1), F(2, 1))

\* a bar the tick rejects (close <= 0)
BarBad == MkBar(One, One, One, Zero)

\* the constructions explored: (configuration, bar sequence)
Setups ==
    ({CfgTrade} \X {<<BarLo, BarLo, BarHi>>, <<BarLo, BarHi, BarLo>>, <<BarLo>>,
                    <<BarHi, BarBad, BarLo>>})
    \cup ({CfgFullFee, CfgClamped} \X {<<BarLo, BarHi, BarLo>>})

Fractions == {Zero, F(1, 2)}

LimitFractions == {One, F(3, 2)}

\* a limit price of 0 stands for lastPrice
LimitPrices == {Zero, F(2, 1)}

Reasons == {""}

LimitReasons == {"", ReasonStopLoss}

StopKinds == {"flip-close"}

(***************************************************************************)
(* State: the Emulator (bars, index, symbol, ex), what the last Next()     *)
(* returned, and the number of order calls that have succeeded.            *)
(***************************************************************************)
VARIABLES ex, bars, index, symbol, ret, calls

vars == <<ex, bars, index, symbol, ret, calls>>

\* what Next() returned: (bar, executed, err)
Ret(bar, executed, err) == [bar |-> bar, orders |-> executed, err |-> err]

\* no Next() has returned yet
NoRet == [bar |-> ZeroBar, orders |-> <<>>, err |-> "none"]

NewEmulator(sym, cfg, bs) ==
    /\ sym # ""
    /\ Len(bs) # 0
    /\ symbol = sym
    /\ bars = bs
    /\ index = 0
    /\ ex = NewExchange(sym, cfg.startUSD, cfg.fee, cfg.slippagePct, cfg.spreadPct)
    /\ ret = NoRet
    /\ calls = 0

Init == \E sym \in Symbols, s \in Setups : NewEmulator(sym, s[1], s[2])

\* faulty variant of executedSince: the whole history is returned
executedAll(before, after) == after

\* executed := after[len(before):] when the history grew
executedSince(before, after) ==
    IF Len(after) > Len(before) THEN SubSeq(after, Len(before) + 1, Len(after)) ELSE <<>>

\* Next() once tickBarAt has returned r for bar
Stepped(bar, r) ==
    IF r.err # ErrNone
    THEN /\ ret' = Ret(ZeroBar, <<>>, r.err)
         /\ UNCHANGED <<ex, bars, index, symbol, calls>>
    ELSE /\ ex' = r.e
         /\ index' = index + 1
         /\ ret' = Ret(bar, executedSince(Orders(ex), Orders(r.e)), ErrNone)
         /\ UNCHANGED <<bars, symbol, calls>>

\* faulty variant of Emulator.Next: the end is reported one bar early
EmuNextSkipsLast ==
    IF index + 1 >= Len(bars)
    THEN /\ ret' = Ret(ZeroBar, <<>>, ErrNoMoreBars)
         /\ UNCHANGED <<ex, bars, index, symbol, calls>>
    ELSE Stepped(bars[index + 1], tickBarAt(ex, symbol, index + 1, bars[index + 1]))

\* faulty variant of Emulator.Next: the bar is processed at the tick of the cursor
EmuNextAtCursorTick ==
    IF index >= Len(bars)
    THEN /\ ret' = Ret(ZeroBar, <<>>, ErrNoMoreBars)
         /\ UNCHANGED <<ex, bars, index, symbol, calls>>
    ELSE Stepped(bars[index + 1], tickBarAt(ex, symbol, index, bars[index + 1]))

\* Emulator.Next
EmuNext ==
    IF index >= Len(bars)
    THEN /\ ret' = Ret(ZeroBar, <<>>, ErrNoMoreBars)
         /\ UNCHANGED <<ex, bars, index, symbol, calls>>
    ELSE Stepped(bars[index + 1], tickBarAt(ex, symbol, index + 1, bars[index + 1]))

\* order calls are explored between steps, while bars remain and the budget lasts
HasRoom == index < Len(bars) /\ calls < MaxCalls

\* a call on Exchange() with result r: r.e is the Exchange it leaves
Call(r) ==
    /\ HasRoom \/ r.err # ErrNone
    /\ ex' = r.e
    /\ calls' = IF r.err = ErrNone THEN calls + 1 ELSE calls
    /\ UNCHANGED <<bars, index, symbol, ret>>

DoOpenLong == \E f \in Fractions : Call(OpenLong(ex, f))

DoOpenShort == \E f \in Fractions : Call(OpenShort(ex, f))

DoCloseDeal == \E reason \in Reasons : Call(CloseDeal(ex, reason))

DoLongLimit == \E p \in LimitPrices, f \in LimitFractions : Call(LongLimit(ex, p, f))

DoShortLimit == \E p \in LimitPrices, f \in LimitFractions : Call(ShortLimit(ex, p, f))

DoCloseLimit ==
    \E p \in LimitPrices, reason \in LimitReasons, sk \in StopKinds :
        Call(CloseLimit(ex, p, reason, sk))

Next ==
    \/ EmuNext
    \/ DoOpenLong
    \/ DoOpenShort
    \/ DoCloseDeal
    \/ DoLongLimit
    \/ DoShortLimit
    \/ DoCloseLimit

Spec == Init /\ [][Next]_vars

\* order calls are explored in a replay until this many of them have succeeded
ReplayCalls == 2

\* a replay: the caller keeps calling Next(), with a few order calls on the way
NextReplay ==
    \/ EmuNext
    \/ calls < ReplayCalls /\ DoOpenLong
    \/ calls < ReplayCalls /\ DoOpenShort
    \/ calls < ReplayCalls /\ DoCloseDeal
    \/ calls < ReplayCalls /\ DoLongLimit
    \/ calls < ReplayCalls /\ DoShortLimit
    \/ calls < ReplayCalls /\ DoCloseLimit

\* a Next() taken now succeeds: the cursor is inside the bars and tickBarAt accepts the bar
CanAdvance == index < Len(bars) /\ symbol = ex.symbol /\ FLt(Zero, bars[index + 1].Close)

\* what a successful Next() does to the cursor
Advance == CanAdvance /\ index' = index + 1 /\ UNCHANGED <<bars, symbol, calls>>

\* Next() past the end
PastEnd ==
    /\ index >= Len(bars)
    /\ ret' = Ret(ZeroBar, <<>>, ErrNoMoreBars)
    /\ UNCHANGED <<ex, bars, index, symbol, calls>>

\* the caller calls Next() again and again: a call that advances the cursor, or reports
\* the end of the bars, is eventually made when it stays possible
SpecReplay == Init /\ [][NextReplay]_vars /\ WF_index(Advance) /\ WF_ret(PastEnd)

(***************************************************************************)
(* An Exchange with costs: a manual spread of 2/3 and a slippage of 1/2,   *)
(* so that a buy executes at twice its price and a sell at a third of it,  *)
(* replayed over a bar whose open, close and average differ.               *)
(***************************************************************************)
CfgCosts ==
    [startUSD |-> F(1000, 1), fee |-> F(1, 10), slippagePct |-> F(1, 2),
     spreadPct |-> F(2, 3)]

\* open 3/2, high 3, low 1, close 3: a limit at 1 or 2 is in range and is none of open, close, average
BarWide == MkBar(F(3, 2), F(3, 1), One, F(3, 1))

SetupsCosts == {CfgCosts, CfgClamped} \X {<<BarLo, BarWide, BarHi>>}

InitCosts == \E sym \in Symbols, s \in SetupsCosts : NewEmulator(sym, s[1], s[2])

SpecCosts == InitCosts /\ [][Next]_vars

(***************************************************************************)
(* Bars at the edge of what a tick accepts: one with low and high          *)
(* exchanged, one with a low of zero, replayed with and without costs.     *)
(***************************************************************************)
\* low 3 above high 3/2: the range is [3/2, 3]
BarSwapped == MkBar(F(2, 1), F(3, 2), F(3, 1), F(2, 1))

\* a low of zero under a positive close
BarZeroLow == MkBar(One, F(3, 1), Zero, F(2, 1))

SetupsEdge == {CfgTrade, CfgCosts} \X {<<BarLo, BarSwapped, BarZeroLow>>}

InitEdge == \E sym \in Symbols, s \in SetupsEdge : NewEmulator(sym, s[1], s[2])

SpecEdge == InitEdge /\ [][Next]_vars

(***************************************************************************)
(* An Exchange with the dynamic spread, constructed with a spread outside  *)
(* [0, 1), trading by market orders over closes 1, 2, 2, 202/100 (a first  *)
(* tick, a return large enough to be clamped, no return, a return of 1%)   *)
(* and over closes 2, 1, 1 and 2, 202/100.                                 *)
(***************************************************************************)
CfgDynamic == [startUSD |-> F(2, 1), fee |-> F(1, 10), slippagePct |-> Zero, spreadPct |-> One]

\* a close 1% above that of BarHi
BarStep == MkBar(F(202, 100), F(202, 100), F(202, 100), F(202, 100))

SetupsDynamic ==
    {CfgDynamic} \X {<<BarLo, BarHi, BarHi, BarStep>>, <<BarHi, BarLo, BarLo>>, <<BarHi, BarStep>>}

InitDynamic == \E sym \in Symbols, s \in SetupsDynamic : NewEmulator(sym, s[1], s[2])

\* market orders are explored until this many orders are recorded
DynamicOrders == 2

NextDynamic ==
    \/ EmuNext
    \/ Len(ex.orders) < DynamicOrders /\ DoOpenLong
    \/ Len(ex.orders) < DynamicOrders /\ DoOpenShort
    \/ Len(ex.orders) < DynamicOrders /\ DoCloseDeal

SpecDynamic == InitDynamic /\ [][NextDynamic]_vars

(***************************************************************************)
(* The arithmetic of float64.  The operators above compute in exact        *)
(* rationals; the ones below compute as the Go code does, rounding every   *)
(* result to the nearest float64, ties to even.  A natural number is the   *)
(* sequence of its digits in base 2^13, least significant first, <<>> for  *)
(* 0.  A float64 value >= 0 is [m, e]: m the natural of 53 bits that is    *)
(* its significand and e the exponent of its lowest bit, so that the value *)
(* is m * 2^e; zero is Zero64.  The operations below never leave the       *)
(* normal range and never produce a negative value: no short is opened     *)
(* and no cost is charged.                                                 *)
(***************************************************************************)
\* bits of the significand of a float64
Precision == 53

\* bits of a digit of a natural
LimbBits == 13

Pow2(k) == 2 ^ k

Base == Pow2(LimbBits)

LimbAt(a, j) == IF 1 <= j /\ j <= Len(a) THEN a[j] ELSE 0

\* a without its leading zero digits
LTrim(a) ==
    IF \A j \in 1..Len(a) : a[j] = 0 THEN <<>>
    ELSE SubSeq(a, 1, CHOOSE j \in 1..Len(a) :
                          a[j] # 0 /\ \A k \in (j + 1)..Len(a) : a[k] = 0)

RECURSIVE Limbs(_)
Limbs(n) == IF n = 0 THEN <<>> ELSE <<n % Base>> \o Limbs(n \div Base)

RECURSIVE LAddFrom(_, _, _, _)
LAddFrom(a, b, j, carry) ==
    IF j > Len(a) /\ j > Len(b) THEN (IF carry = 1 THEN <<1>> ELSE <<>>)
    ELSE <<(LimbAt(a, j) + LimbAt(b, j) + carry) % Base>>
         \o LAddFrom(a, b, j + 1, (LimbAt(a, j) + LimbAt(b, j) + carry) \div Base)

LAdd(a, b) == LAddFrom(a, b, 1, 0)

RECURSIVE LSubFrom(_, _, _, _)
LSubFrom(a, b, j, borrow) ==
    IF j > Len(a) THEN <<>>
    ELSE <<(LimbAt(a, j) - LimbAt(b, j) - borrow + Base) % Base>>
         \o LSubFrom(a, b, j + 1, IF LimbAt(a, j) - LimbAt(b, j) - borrow < 0 THEN 1 ELSE 0)

\* a - b for a >= b
LSub(a, b) == LTrim(LSubFrom(a, b, 1, 0))

LLt(a, b) ==
    IF Len(a) # Len(b) THEN Len(a) < Len(b)
    ELSE \E j \in 1..Len(a) : a[j] < b[j] /\ \A k \in (j + 1)..Len(a) : a[k] = b[k]

RECURSIVE LMulSmallFrom(_, _, _, _)
LMulSmallFrom(a, n, j, carry) ==
    IF j > Len(a) THEN Limbs(carry)
    ELSE <<((a[j] * n) + carry) % Base>>
         \o LMulSmallFrom(a, n, j + 1, ((a[j] * n) + carry) \div Base)

\* a * n for a digit n
LMulSmall(a, n) == LTrim(LMulSmallFrom(a, n, 1, 0))

\* a * Base^k
LShiftLimbs(a, k) == IF a = <<>> THEN a ELSE [j \in 1..k |-> 0] \o a

RECURSIVE LMulFrom(_, _, _)
LMulFrom(a, b, j) ==
    IF j > Len(b) THEN <<>>
    ELSE LAdd(LShiftLimbs(LMulSmall(a, b[j]), j - 1), LMulFrom(a, b, j + 1))

LMul(a, b) == LMulFrom(a, b, 1)

\* a * 2^k
LShl(a, k) ==
    LTrim([j \in 1..(Len(a) + (k \div LimbBits) + 1) |->
              ((LimbAt(a, j - (k \div LimbBits)) * Pow2(k % LimbBits)) % Base)
              + (LimbAt(a, j - (k \div LimbBits) - 1) \div Pow2(LimbBits - (k % LimbBits)))])

\* a / 2^k, rounded down
LShr(a, k) ==
    LTrim([j \in 1..Len(a) |->
              (LimbAt(a, j + (k \div LimbBits)) \div Pow2(k % LimbBits))
              + ((LimbAt(a, j + (k \div LimbBits) + 1) % Pow2(k % LimbBits))
                  * Pow2(LimbBits - (k % LimbBits)))])

\* bit i of a, bit 0 the lowest
LBit(a, i) == (LimbAt(a, (i \div LimbBits) + 1) \div Pow2(i % LimbBits)) % 2

\* number of bits of a
LBitLen(a) ==
    IF a = <<>> THEN 0
    ELSE (LimbBits * (Len(a) - 1))
         + CHOOSE k \in 1..LimbBits : Pow2(k - 1) <= a[Len(a)] /\ a[Len(a)] < Pow2(k)

\* the greatest digit t in lo..hi with d * t <= r
RECURSIVE QDigit(_, _, _, _)
QDigit(r, d, lo, hi) ==
    IF lo = hi THEN lo
    ELSE IF LLt(r, LMulSmall(d, (lo + hi + 1) \div 2))
    THEN QDigit(r, d, lo, ((lo + hi + 1) \div 2) - 1)
    ELSE QDigit(r, d, (lo + hi + 1) \div 2, hi)

\* long division of n by d, from digit j of n down, with r the remainder and q the
\* quotient digits so far; each remainder and each digit is evaluated before the next
RECURSIVE LDivFrom(_, _, _, _, _)
RECURSIVE LDivDigit(_, _, _, _, _)
LDivFrom(n, d, j, r, q) ==
    IF j = 0 THEN [q |-> LTrim(q), r |-> r]
    ELSE CHOOSE qr \in {LDivDigit(n, d, j, r2, q2) : r2 \in {LTrim(<<n[j]>> \o r)}, q2 \in {q}} :
             TRUE

LDivDigit(n, d, j, r, q) ==
    CHOOSE qr \in {LDivFrom(n, d, j - 1, LSub(r, LMulSmall(d, t)), <<t>> \o q) :
                       t \in {QDigit(r, d, 0, Base - 1)}} : TRUE

LDivMod(n, d) == LDivFrom(n, d, Len(n), <<>>, <<>>)

Zero64 == [m |-> <<>>, e |-> 0]

\* the significand after the increment of a rounding up
Carried(m, e) ==
    IF LBitLen(m) > Precision THEN [m |-> LShr(m, 1), e |-> e + 1]
    ELSE [m |-> m, e |-> e]

\* faulty variant of RoundCut: the bits cut off are dropped
RoundCutDown(n, e, cut, inexact) == [m |-> LShr(n, cut), e |-> e + cut]

\* n with its lowest cut bits rounded away: up when they are more than half of the
\* lowest kept bit, or exactly half with that bit odd
RoundCut(n, e, cut, inexact) ==
    IF LBit(n, cut - 1) = 1
       /\ (inexact \/ LBit(n, cut) = 1 \/ LShl(LShr(n, cut - 1), cut - 1) # n)
    THEN Carried(LAdd(LShr(n, cut), <<1>>), e + cut)
    ELSE [m |-> LShr(n, cut), e |-> e + cut]

\* Round64 for a natural n # 0 of len bits
RoundLen(n, e, inexact, len) ==
    IF len <= Precision THEN [m |-> LShl(n, Precision - len), e |-> e - (Precision - len)]
    ELSE RoundCut(n, e, len - Precision, inexact)

\* the float64 nearest to the value v with n * 2^e <= v < (n + 1) * 2^e, where inexact
\* says that v is not n * 2^e
Round64(n, e, inexact) == IF n = <<>> THEN Zero64 ELSE RoundLen(n, e, inexact, LBitLen(n))

\* float64(n) for a natural n
FromInt(n) == Round64(Limbs(n), 0, FALSE)

One64 == FromInt(1)

\* a / 2^k, exact
Halved(a, k) == IF a = Zero64 THEN a ELSE [a EXCEPT !.e = @ - k]

Lt64(a, b) ==
    IF b = Zero64 THEN FALSE
    ELSE IF a = Zero64 THEN TRUE
    ELSE IF a.e # b.e THEN a.e < b.e
    ELSE LLt(a.m, b.m)

Le64(a, b) == ~Lt64(b, a)

\* a + b; the operands of an operation are evaluated first, then the operation
Add64(a, b) ==
    CHOOSE r \in {IF x = Zero64 THEN y
                  ELSE IF y = Zero64 THEN x
                  ELSE IF x.e >= y.e
                  THEN Round64(LAdd(LShl(x.m, x.e - y.e), y.m), y.e, FALSE)
                  ELSE Round64(LAdd(x.m, LShl(y.m, y.e - x.e)), x.e, FALSE) :
                  x \in {a}, y \in {b}} : TRUE

\* a - b for a >= b
Sub64(a, b) ==
    CHOOSE r \in {IF y = Zero64 THEN x
                  ELSE Round64(LSub(LShl(x.m, x.e - y.e), y.m), y.e, FALSE) :
                  x \in {a}, y \in {b}} : TRUE

Mul64(a, b) ==
    CHOOSE r \in {IF x = Zero64 \/ y = Zero64 THEN Zero64
                  ELSE Round64(LMul(x.m, y.m), x.e + y.e, FALSE) :
                  x \in {a}, y \in {b}} : TRUE

\* the float64 nearest to the quotient: the division is carried two bits further than
\* the significand holds, and the remainder tells whether it is exact
Quotient64(qr, e) == Round64(qr.q, e, qr.r # <<>>)

\* a / b for b # 0
Div64(a, b) ==
    CHOOSE r \in {IF x = Zero64 THEN Zero64
                  ELSE Quotient64(LDivMod(LShl(x.m, Precision + 2), y.m),
                                  x.e - y.e - (Precision + 2)) :
                  x \in {a}, y \in {b}} : TRUE

\* the float64 next above a > 0
Succ64(a) == Carried(LAdd(a.m, <<1>>), a.e)

(***************************************************************************)
(* The Exchange in float64: construction, a tick, OpenLong and CloseDeal   *)
(* of a long, as exchange.go computes them.  No limit is placed on it.     *)
(***************************************************************************)
NewExchange64(sym, startUSD, fee, slippagePct, spreadPct) ==
    [symbol |-> sym, fee |-> fee, usd |-> startUSD,
     slippagePct |-> IF Le64(One64, slippagePct) THEN Zero64 ELSE slippagePct,
     spreadPct |-> IF Le64(One64, spreadPct) THEN Zero64 ELSE spreadPct,
     spreadManual |-> ~Le64(One64, spreadPct),
     prevPrice |-> Zero64, position |-> Zero64, entryPrice |-> Zero64,
     shortCash |-> Zero64, shortMargin |-> Zero64, lastPrice |-> Zero64, tick |-> 0,
     orders |-> <<>>, nextID |-> 0, pending |-> <<>>]

equityAt64(e, price) ==
    IF Lt64(Zero64, price)
    THEN Add64(Add64(Add64(e.usd, e.shortCash), e.shortMargin), Mul64(e.position, price))
    ELSE Add64(Add64(e.usd, e.shortCash), e.shortMargin)

Balance64(e) ==
    [USD |-> e.usd, Position |-> e.position, ShortCash |-> e.shortCash,
     ShortMargin |-> e.shortMargin,
     Equity |-> equityAt64(e, IF Le64(e.lastPrice, Zero64) THEN e.entryPrice
                              ELSE e.lastPrice),
     EntryPrice |-> e.entryPrice, LastPrice |-> e.lastPrice]

applySpread64(e, side, price) ==
    IF Le64(price, Zero64) THEN price
    ELSE IF Le64(e.spreadPct, Zero64) THEN price
    ELSE IF side = SideBuy THEN Mul64(price, Add64(One64, Halved(e.spreadPct, 1)))
    ELSE IF side = SideSell THEN Mul64(price, Sub64(One64, Halved(e.spreadPct, 1)))
    ELSE price

applySlippage64(e, side, price) ==
    IF Le64(price, Zero64) THEN price
    ELSE IF Le64(e.slippagePct, Zero64) THEN price
    ELSE IF side = SideBuy THEN Mul64(price, Add64(One64, e.slippagePct))
    ELSE IF side = SideSell THEN Mul64(price, Sub64(One64, e.slippagePct))
    ELSE price

execPrice64(e, side, mid) == applySlippage64(e, side, applySpread64(e, side, mid))

recordOrder64(e, side, qty, mid, exec, feeUSD, execPnL, equityBefore, reason, stopKind, placedTick) ==
    [e EXCEPT !.nextID = @ + 1,
              !.orders = Append(@, newOrder(e, Balance64(e), side, qty, mid, exec, feeUSD,
                                            execPnL, equityBefore, reason, stopKind,
                                            placedTick))]

openLongFill64(e, mid, notional, feeUSD, exec, qty, placedTick) ==
    Opened(recordOrder64([e EXCEPT !.usd = Sub64(@, notional), !.position = qty,
                                   !.entryPrice = exec],
                         SideBuy, qty, mid, exec, feeUSD, Mul64(qty, Sub64(mid, exec)),
                         Balance64(e).Equity, ReasonEntryLong, "", placedTick))

openLongNet64(e, price, notional, feeUSD, net, placedTick) ==
    IF Le64(net, Zero64) THEN Failed(e, ErrInvalidFraction)
    ELSE openLongFill64(e, price, notional, feeUSD, execPrice64(e, SideBuy, price),
                        Div64(net, execPrice64(e, SideBuy, price)), placedTick)

openLongNotional64(e, price, notional, placedTick) ==
    IF Le64(notional, Zero64) THEN Failed(e, ErrInvalidFraction)
    ELSE openLongNet64(e, price, notional, Mul64(notional, e.fee),
                       Sub64(notional, Mul64(notional, e.fee)), placedTick)

openLongAtPrice64(e, price, fraction, placedTick) ==
    IF e.position # Zero64 THEN Failed(e, ErrPositionOpen)
    ELSE IF Le64(e.lastPrice, Zero64) THEN Failed(e, ErrPriceNotSet)
    ELSE IF Le64(fraction, Zero64) \/ Lt64(One64, fraction)
    THEN Failed(e, ErrInvalidFraction)
    ELSE openLongNotional64(e, IF Le64(price, Zero64) THEN e.lastPrice ELSE price,
                            Mul64(e.usd, fraction), placedTick)

\* faulty variant of closeLongFill64: the fee is not taken out of the revenue
closeLongFill64KeepsFee(e, savedLast, mid, exec, qty, revenue, feeUSD, reason, stopKind) ==
    Closed(recordOrder64([e EXCEPT !.usd = Add64(@, revenue),
                                   !.position = Zero64, !.entryPrice = Zero64],
                         SideSell, qty, mid, exec, feeUSD, Mul64(qty, Sub64(exec, mid)),
                         Balance64(e).Equity, reason, stopKind, e.tick),
           savedLast)

closeLongFill64(e, savedLast, mid, exec, qty, revenue, feeUSD, reason, stopKind) ==
    Closed(recordOrder64([e EXCEPT !.usd = Add64(@, Sub64(revenue, feeUSD)),
                                   !.position = Zero64, !.entryPrice = Zero64],
                         SideSell, qty, mid, exec, feeUSD, Mul64(qty, Sub64(exec, mid)),
                         Balance64(e).Equity, reason, stopKind, e.tick),
           savedLast)

closeLongAt64(e, savedLast, mid, exec, revenue, reason, stopKind) ==
    closeLongFill64(e, savedLast, mid, exec, e.position, revenue, Mul64(revenue, e.fee),
                    reason, stopKind)

\* closeAtPrice on a long position
closeAtPrice64(e, price, reason, stopKind) ==
    closeLongAt64([e EXCEPT !.lastPrice = price], e.lastPrice, price,
                  execPrice64(e, SideSell, price),
                  Mul64(e.position, execPrice64(e, SideSell, price)), reason, stopKind)

OpenLong64(e, fraction) == openLongAtPrice64(e, e.lastPrice, fraction, e.tick)

CloseDeal64(e, reason) ==
    IF e.position = Zero64 THEN Failed(e, ErrNoPosition)
    ELSE IF Le64(e.lastPrice, Zero64) THEN Failed(e, ErrPriceNotSet)
    ELSE placedAt(closeAtPrice64(e, e.lastPrice, IF reason = "" THEN ReasonExit ELSE reason,
                                 ""),
                  e.tick)

\* a tick on an Exchange with a manual spread and an empty queue
tickBarAt64(e, sym, tick, bar) ==
    IF sym # e.symbol THEN Failed(e, ErrSymbolMismatch)
    ELSE IF Le64(bar.Close, Zero64) THEN Failed(e, ErrPriceNotPositive)
    ELSE [e |-> [e EXCEPT !.tick = IF tick < 0 THEN 0 ELSE tick, !.prevPrice = bar.Close,
                          !.lastPrice = bar.Close],
          order |-> <<>>, err |-> ErrNone]

\* starting balances and bar prices of the round trips explored
StartUSDs == {1, 10, 100, 1000}

MaxPrice64 == 40

Fractions64 == {Zero64, Halved(One64, 1), One64}

\* calls explored on the float64 Exchange: two round trips
TripCalls == 4

Bar64(p) == [Open |-> p, High |-> p, Low |-> p, Close |-> p, Average |-> p]

Init64 ==
    \E u \in StartUSDs, p \in 1..MaxPrice64 :
        /\ symbol = "enj"
        /\ bars = <<Bar64(FromInt(p))>>
        /\ index = 0
        /\ ex = NewExchange64("enj", FromInt(u), Zero64, Zero64, Zero64)
        /\ ret = NoRet
        /\ calls = 0

Stepped64(bar, r) ==
    IF r.err # ErrNone
    THEN /\ ret' = Ret(Bar64(Zero64), <<>>, r.err)
         /\ UNCHANGED <<ex, bars, index, symbol, calls>>
    ELSE /\ ex' = r.e
         /\ index' = index + 1
         /\ ret' = Ret(bar, executedSince(ex.orders, r.e.orders), ErrNone)
         /\ UNCHANGED <<bars, symbol, calls>>

EmuNext64 ==
    IF index >= Len(bars)
    THEN /\ ret' = Ret(Bar64(Zero64), <<>>, ErrNoMoreBars)
         /\ UNCHANGED <<ex, bars, index, symbol, calls>>
    ELSE Stepped64(bars[index + 1], tickBarAt64(ex, symbol, index + 1, bars[index + 1]))

Call64(r) ==
    /\ calls < TripCalls \/ r.err # ErrNone
    /\ ex' = r.e
    /\ calls' = IF r.err = ErrNone THEN calls + 1 ELSE calls
    /\ UNCHANGED <<bars, index, symbol, ret>>

DoOpenLong64 == \E f \in Fractions64 : Call64(OpenLong64(ex, f))

DoCloseDeal64 == \E reason \in Reasons : Call64(CloseDeal64(ex, reason))

Next64 ==
    \/ EmuNext64
    \/ DoOpenLong64
    \/ DoCloseDeal64

Spec64 == Init64 /\ [][Next64]_vars

\* the float64 Exchange with a fee of 1/4 (exact in float64) or none
Fees64 == {Zero64, Halved(One64, 2)}

Init64Fee ==
    \E u \in StartUSDs, p \in 1..MaxPrice64, fee \in Fees64 :
        /\ symbol = "enj"
        /\ bars = <<Bar64(FromInt(p))>>
        /\ index = 0
        /\ ex = NewExchange64("enj", FromInt(u), fee, Zero64, Zero64)
        /\ ret = NoRet
        /\ calls = 0

Spec64Fee == Init64Fee /\ [][Next64]_vars

(***************************************************************************)
(* The integration scenario: USD 1000, fee 0.001, no slippage, no spread,  *)
(* four bars, three limit orders.                                          *)
(***************************************************************************)
CfgScenario ==
    [startUSD |-> F(1000, 1), fee |-> F(1, 1000), slippagePct |-> Zero, spreadPct |-> Zero]

ScenarioBars == <<BarLo, BarHi, BarHi, BarLo>>

InitScenario == NewEmulator("enj", CfgScenario, ScenarioBars)

\* the scenario places three limits: a long, then a close and a short
ScenarioLimits == 3

NextScenario ==
    \/ EmuNext
    \/ ex.nextLimitID < ScenarioLimits /\ DoLongLimit
    \/ ex.nextLimitID < ScenarioLimits /\ DoShortLimit
    \/ ex.nextLimitID < ScenarioLimits /\ DoCloseLimit

SpecScenario == InitScenario /\ [][NextScenario]_vars

(***************************************************************************)
(* Properties                                                              *)
(***************************************************************************)
\* price lies in the bar's [low, high]
Inside(price, bar) == FLe(bar.Low, price) /\ FLe(price, bar.High)

\* this step is a successful Next(): the cursor advanced
NextSucceeds == index' = index + 1

\* the bar a Next() taken now processes
NextBar == bars[index + 1]

\* a queue entry without its diagnostics
Entry(p) ==
    [id |-> p.id, kind |-> p.kind, price |-> p.price, fraction |-> p.fraction,
     reason |-> p.reason, stopKind |-> p.stopKind, placedAtTick |-> p.placedAtTick,
     placedBar |-> p.placedBar]

Entries(e) == [i \in 1..Len(e.pending) |-> Entry(e.pending[i])]

Queued(e, id) == \E i \in 1..Len(e.pending) : e.pending[i].id = id

LastOrder(e) == e.orders[Len(e.orders)]

(* C1: FIFO head-blocking.  When Next() processes a tick and the head of   *)
(* the queue was placed at an earlier tick but its limit price lies        *)
(* outside the bar's [low, high], no pending order executes and none is    *)
(* removed in that tick, whatever the prices of the later entries: the     *)
(* queue keeps the same entries in the same order, the history does not    *)
(* grow and Next() returns no order.                                       *)
FifoHeadBlocking ==
    [][(/\ NextSucceeds
        /\ Len(ex.pending) > 0
        /\ ex.pending[1].placedAtTick < index + 1
        /\ ~Inside(ex.pending[1].price, NextBar))
       => (/\ Entries(ex') = Entries(ex)
           /\ ex'.orders = ex.orders
           /\ ret'.orders = <<>>)]_vars

\* the last tick left a head outside the bar's range in front of a due entry inside it
FifoHeadBlocked ==
    /\ Len(ex.pending) >= 2
    /\ ex.hasLastBar
    /\ ex.pending[1].placedAtTick < ex.tick
    /\ ~Inside(ex.pending[1].price, ex.lastBar)
    /\ ex.pending[1].lastReason = "price_not_in_hl"
    /\ ex.pending[2].placedAtTick < ex.tick
    /\ Inside(ex.pending[2].price, ex.lastBar)
    /\ ex.pending[2].lastReason = "blocked_by_fifo_head"

(* C2: no same-tick fill.  A limit placed while the exchange is at tick T  *)
(* records T as its placement tick; an entry leaves the queue (executed or *)
(* dropped) only in a Next() step whose tick is strictly greater than its  *)
(* placement tick, and the order created by filling it carries a Tick      *)
(* strictly greater than that placement tick.                              *)
NoSameTickFill ==
    [][/\ \A j \in 1..Len(ex'.pending) :
              ~Queued(ex, ex'.pending[j].id) => ex'.pending[j].placedAtTick = ex.tick
       /\ \A i \in 1..Len(ex.pending) :
              ~Queued(ex', ex.pending[i].id)
              => /\ NextSucceeds
                 /\ ex.pending[i].placedAtTick < ex'.tick
                 /\ ex.pending[i].id \in DOMAIN ex'.executedByID
                    => ex'.executedByID[ex.pending[i].id].Tick > ex.pending[i].placedAtTick]_vars

\* a limit placed at tick 1 has been filled at tick 2, another placed at tick 2 is waiting
FilledAtLaterTick ==
    /\ ex.tick = 2
    /\ 1 \in DOMAIN ex.executedByID
    /\ ex.executedByID[1].PlacedTick = 1
    /\ ex.executedByID[1].Tick = 2
    /\ Len(ex.pending) = 1
    /\ ex.pending[1].placedAtTick = 2

(* C3: position invariant.  In every reachable state entryPrice = 0 if    *)
(* and only if position = 0, and every order of the history recorded a     *)
(* state (PositionAfter, EntryPrice) with the same property.               *)
EntryPriceIffPosition ==
    /\ (ex.entryPrice = Zero) <=> (ex.position = Zero)
    /\ \A i \in 1..Len(ex.orders) :
           (ex.orders[i].EntryPrice = Zero) <=> (ex.orders[i].PositionAfter = Zero)

\* a position has been opened, closed, and a new one is open
ReopenedAfterClose ==
    /\ Len(ex.orders) = 3
    /\ ex.orders[1].PositionAfter # Zero
    /\ ex.orders[2].PositionAfter = Zero
    /\ ex.position # Zero
    /\ ex.entryPrice # Zero

(* C4: one position at a time.  Every order that leaves a position open    *)
(* was executed from a flat state, so the position only changes            *)
(* flat->long, flat->short, long->flat or short->flat, and the position    *)
(* is the one the last order left.  While a position exists OpenLong and   *)
(* OpenShort fail with PositionOpen and change nothing; a queued           *)
(* open-limit that matches while a position exists creates no order.       *)
OnePositionAtATime ==
    /\ \A i \in 1..Len(ex.orders) :
           ex.orders[i].PositionAfter # Zero
           => (i = 1 \/ ex.orders[i - 1].PositionAfter = Zero)
    /\ ex.position = IF ex.orders = <<>> THEN Zero ELSE LastOrder(ex).PositionAfter
    /\ ex.position # Zero
       => \A f \in Fractions \cup LimitFractions :
              /\ OpenLong(ex, f) = Failed(ex, ErrPositionOpen)
              /\ OpenShort(ex, f) = Failed(ex, ErrPositionOpen)

\* an open-limit came due and matched at tick 2 while the position opened at tick 1
\* was still there: it left the queue without an order
OpenLimitDroppedWhilePositioned ==
    /\ bars[1] = BarLo
    /\ index = 2
    /\ ex.tick = 2
    /\ Len(ex.orders) = 1
    /\ ex.orders[1].Tick = 1
    /\ ex.position # Zero
    /\ ex.pending = <<>>
    /\ ex.limitFailed.position_state_mismatch = 1

(* C5: the order history is append-only with dense ids.  No step shortens  *)
(* the history or changes an entry already in it, and the i-th order of    *)
(* the history has id i.                                                   *)
HistoryAppendOnly ==
    /\ [](\A i \in 1..Len(ex.orders) : ex.orders[i].ID = i)
    /\ [][/\ Len(ex'.orders) >= Len(ex.orders)
          /\ SubSeq(ex'.orders, 1, Len(ex.orders)) = ex.orders]_vars

\* three orders recorded, by market calls and by a filled limit
ThreeOrdersRecorded ==
    /\ Len(ex.orders) = 3
    /\ DOMAIN ex.executedByID # {}
    /\ \E i \in 1..3 : \A id \in DOMAIN ex.executedByID : ex.executedByID[id].ID # i

(* C6: liquidation is a total loss.  Whenever an order closes a short      *)
(* whose shortCash + shortMargin (as the opening order left them) is less  *)
(* than qty * execPrice plus the fee, that order has reason "liquidation"  *)
(* and ExecPnL equal to minus its EquityBefore, and it leaves usd,         *)
(* shortCash, shortMargin, position and entryPrice all 0; the exchange is  *)
(* in that state for as long as the liquidation is its last order.         *)
LiquidationTotalLoss ==
    /\ \A i \in 2..Len(ex.orders) :
           (/\ FLt(ex.orders[i - 1].PositionAfter, Zero)
            /\ FLt(FAdd(ex.orders[i - 1].ShortCash, ex.orders[i - 1].ShortMargin),
                   FAdd(FMul(ex.orders[i].Qty, ex.orders[i].Price), ex.orders[i].Fee)))
           => /\ ex.orders[i].Reason = ReasonLiquidate
              /\ ex.orders[i].ExecPnL = FNeg(ex.orders[i].EquityBefore)
              /\ ex.orders[i].USD = Zero
              /\ ex.orders[i].ShortCash = Zero
              /\ ex.orders[i].ShortMargin = Zero
              /\ ex.orders[i].PositionAfter = Zero
              /\ ex.orders[i].EntryPrice = Zero
    /\ (ex.orders # <<>> /\ LastOrder(ex).Reason = ReasonLiquidate)
       => /\ ex.usd = Zero
          /\ ex.shortCash = Zero
          /\ ex.shortMargin = Zero
          /\ ex.position = Zero
          /\ ex.entryPrice = Zero

\* a short that kept free usd aside has just been liquidated
ShortLiquidated ==
    /\ Len(ex.orders) = 2
    /\ FLt(ex.orders[1].PositionAfter, Zero)
    /\ FLt(Zero, ex.orders[1].USD)
    /\ FLt(FAdd(ex.orders[1].ShortCash, ex.orders[1].ShortMargin),
           FAdd(FMul(ex.orders[2].Qty, ex.orders[2].Price), ex.orders[2].Fee))
    /\ ex.orders[2].Reason = ReasonLiquidate

\* a long is open and the queue is a close-limit followed by a short-limit, both
\* placed before the tick Next() processes now and both priced inside its bar
FlipQueued ==
    /\ FLt(Zero, ex.position)
    /\ Len(ex.pending) = 2
    /\ ex.pending[1].kind = pendingClose
    /\ ex.pending[2].kind = pendingOpenShort
    /\ ex.pending[1].placedAtTick < index + 1
    /\ ex.pending[2].placedAtTick < index + 1
    /\ Inside(ex.pending[1].price, NextBar)
    /\ Inside(ex.pending[2].price, NextBar)

LongLimitQueued ==
    /\ ex.orders = <<>>
    /\ ex.position = Zero
    /\ FLt(Zero, ex.usd)
    /\ index >= 1
    /\ Len(ex.pending) = 1
    /\ ex.pending[1].kind = pendingOpenLong
    /\ ex.pending[1].fraction = One
    /\ ex.pending[1].placedAtTick = index
    /\ Inside(ex.pending[1].price, NextBar)

ScenarioSecondStep ==
    /\ index = 1
    /\ ex.orders = <<>>
    /\ Len(ex.pending) = 1
    /\ ex.pending[1].kind = pendingOpenLong
    /\ ex.pending[1].placedAtTick = 1
    /\ ex.pending[1].price = bars[2].Average

(* C9, as stated: in the scenario (USD 1000, fee 0.001, no slippage, no    *)
(* spread, four bars), after the first Next() primed bar 1 and a long      *)
(* limit was placed at bar 2's average price, the second Next() returns 0  *)
(* executed orders.                                                        *)
ScenarioSecondStepReturnsNothing ==
    [][(NextSucceeds /\ ScenarioSecondStep) => ret'.orders = <<>>]_vars

(* C9, amended: in that scenario the second Next() returns exactly one     *)
(* executed order, the fill of the long limit: reason "entry-long", placed *)
(* at tick 1, executed at tick 2 at the limit price.                       *)
ScenarioSecondStepFills ==
    [][(NextSucceeds /\ ScenarioSecondStep)
       => (/\ Len(ret'.orders) = 1
           /\ ret'.orders[1].Reason = ReasonEntryLong
           /\ ret'.orders[1].PlacedTick = 1
           /\ ret'.orders[1].Tick = 2
           /\ ret'.orders[1].MidPrice = bars[2].Average)]_vars

\* the scenario after its second Next(): it returned the fill of the long limit
ScenarioSecondStepFilled ==
    /\ index = 2
    /\ ex.fee = F(1, 1000)
    /\ Len(ret.orders) = 1
    /\ ret.orders[1].Reason = ReasonEntryLong
    /\ ret.orders[1].PlacedTick = 1
    /\ ret.orders[1].MidPrice = bars[2].Average
    /\ ret.orders[1].USD = Zero

(* C10: Next() reports exactly the orders of its own step.  A successful   *)
(* Next() returns the entries it appended to the history, in order, each   *)
(* with Tick equal to the step's tick and an id above every id recorded    *)
(* before the call (so no order of a market call and no order returned by  *)
(* an earlier Next() is among them); a failing Next() returns none, and no *)
(* other call changes what Next() returned.                                *)
NextReportsOwnOrders ==
    [][/\ NextSucceeds
          => /\ Len(ex'.orders) >= Len(ex.orders)
             /\ ex'.orders = ex.orders \o ret'.orders
             /\ \A i \in 1..Len(ret'.orders) :
                    /\ ret'.orders[i].Tick = index + 1
                    /\ ret'.orders[i].ID > Len(ex.orders)
                    /\ \A j \in 1..Len(ex.orders) : ex.orders[j].ID # ret'.orders[i].ID
       /\ ~NextSucceeds => (ret'.orders = <<>> \/ ret' = ret)]_vars

\* a market open at tick 1 is in the history; the last Next() returned the two limit
\* fills of tick 2 and not the market order
ReturnedAfterMarketOrder ==
    /\ index = 2
    /\ Len(ex.orders) = 3
    /\ ex.orders[1].Tick = 1
    /\ ex.orders[1].PlacedTick = 1
    /\ ex.orders[1].PositionAfter # Zero
    /\ Len(ret.orders) = 2
    /\ ret.orders[1] = ex.orders[2]
    /\ ret.orders[2] = ex.orders[3]

\* every bar of the sequence has a positive close
PositiveCloses == \A i \in 1..Len(bars) : FLt(Zero, bars[i].Close)

\* Next() has returned NoMoreBars with the cursor at the end of the bars
ReplayEnded == ret.err = ErrNoMoreBars /\ index = Len(bars)

(* C11, as stated: for every non-empty bar sequence with non-negative      *)
(* open/high/low/close and high >= low, repeatedly calling Next()          *)
(* eventually returns NoMoreBars.                                          *)
ReplayAlwaysEnds == <>(ret.err = ErrNoMoreBars)

(* C11, amended: for every non-empty bar sequence whose closes are all     *)
(* positive, repeatedly calling Next() eventually returns NoMoreBars;      *)
(* NoMoreBars is only ever returned with the cursor at len(bars), that is  *)
(* after exactly len(bars) successful steps, and from then on every Next() *)
(* returns NoMoreBars and changes nothing.                                 *)
ReplayEndsOnPositiveCloses ==
    /\ PositiveCloses => <>ReplayEnded
    /\ [](ret.err = ErrNoMoreBars => index = Len(bars))
    /\ [][index >= Len(bars)
          => (ret'.err = ErrNoMoreBars /\ ex' = ex /\ index' = index)]_vars

\* a replay of three bars, with trades on the way, has ended
ReplayOfThreeBarsEnded ==
    /\ ReplayEnded
    /\ Len(bars) = 3
    /\ ex.tick = 3
    /\ ex.orders # <<>>

\* a call with result r that failed left the Exchange as it was
Untouched(r) == r.err # ErrNone => r.e = ex

\* fractions and limit prices given to the calls, the invalid ones among them
AnyFractions == {FNeg(One), Zero, F(1, 2), One, F(3, 2)}

AnyPrices == {FNeg(One), Zero, F(2, 1)}

\* bars given to a tick, with closes that are zero or negative among them
AnyBars == {BarLo, BarBad, MkBar(One, One, One, FNeg(One))}

(* C12: a call that returns an error mutates nothing.  In every reachable  *)
(* state, an OpenLong, OpenShort, CloseDeal, LongLimit, ShortLimit or      *)
(* CloseLimit that fails, and a tick that fails (other symbol, close <= 0),*)
(* leaves every field of the Exchange as it was; a Next() that returns an  *)
(* error leaves the Exchange and the cursor as they were.                  *)
FailuresMutateNothing ==
    /\ [](/\ \A f \in AnyFractions :
               /\ Untouched(OpenLong(ex, f))
               /\ Untouched(OpenShort(ex, f))
               /\ \A p \in AnyPrices :
                      Untouched(LongLimit(ex, p, f)) /\ Untouched(ShortLimit(ex, p, f))
          /\ \A reason \in LimitReasons :
               /\ Untouched(CloseDeal(ex, reason))
               /\ \A p \in AnyPrices : Untouched(CloseLimit(ex, p, reason, ""))
          /\ \A sym \in {symbol, "other"}, bar \in AnyBars :
               Untouched(tickBarAt(ex, sym, index + 1, bar)))
    /\ [][(ret'.err # ErrNone /\ ret' # ret) => (ex' = ex /\ index' = index)]_vars

\* Next() was refused a bar of close 0 while a position was open and a limit was queued
NextFailedWithPosition ==
    /\ ret.err = ErrPriceNotPositive
    /\ index = 1
    /\ ex.tick = 1
    /\ ex.position # Zero
    /\ ex.pending # <<>>
    /\ OpenLong(ex, F(1, 2)).err = ErrPositionOpen

\* the head was placed at an earlier tick, its price is inside the bar of the coming
\* tick, and its kind conflicts with the position
HeadConflicts ==
    /\ Len(ex.pending) > 0
    /\ ex.pending[1].placedAtTick < index + 1
    /\ Inside(ex.pending[1].price, NextBar)
    /\ IF ex.pending[1].kind = pendingClose THEN ex.position = Zero ELSE ex.position # Zero

\* e with its head gone and one more mismatch counted
WithoutHead(e) ==
    [e EXCEPT !.pending = Tail(@), !.limitFailed.position_state_mismatch = @ + 1]

\* usd, position, entry price and the short accounts
Holdings(e) == <<e.usd, e.position, e.entryPrice, e.shortCash, e.shortMargin>>

QueuedIds(e) == {e.pending[i].id : i \in 1..Len(e.pending)}

(* C14, as stated: a pending order leaves the queue only by execution or   *)
(* by a counted mismatch drop.  In every Next() step, each entry that      *)
(* leaves the queue is matched by exactly one new order of the history or  *)
(* by one increment of the position_state_mismatch counter: the number of  *)
(* entries removed equals the number of orders appended plus the growth of *)
(* the counter.                                                            *)
EveryRemovalAccounted ==
    [][NextSucceeds
       => Cardinality(QueuedIds(ex) \ QueuedIds(ex'))
             = (Len(ex'.orders) - Len(ex.orders))
               + (ex'.limitFailed.position_state_mismatch
                  - ex.limitFailed.position_state_mismatch)]_vars

\* the fraction is outside (0, 1]
BadFraction(f) == FLe(f, Zero) \/ FLt(One, f)

\* the notional usd*f, or what is left of it after the fee, is not positive
NoFunds(e, f) ==
    \/ FLe(FMul(e.usd, f), Zero)
    \/ FLe(FSub(FMul(e.usd, f), FMul(FMul(e.usd, f), e.fee)), Zero)

\* r is the result of a placement of the given kind on ex that queued one entry
QueuedOne(r, kind, p, f) ==
    /\ r.err = ErrNone
    /\ r.id = ex.nextLimitID + 1
    /\ Len(r.e.pending) = Len(ex.pending) + 1
    /\ SubSeq(r.e.pending, 1, Len(ex.pending)) = ex.pending
    /\ Entry(r.e.pending[Len(r.e.pending)])
          = [id |-> r.id, kind |-> kind, price |-> limitPrice(ex, p), fraction |-> f,
             reason |-> "", stopKind |-> "", placedAtTick |-> ex.tick,
             placedBar |-> ex.lastBar]

(* C15, as stated: LongLimit and ShortLimit apply the validation of        *)
(* OpenLong and OpenShort.  With a resolvable price they fail with         *)
(* InvalidFraction whenever the fraction is outside (0,1] or the notional  *)
(* usd*fraction or its net-of-fee amount is not positive, and in every     *)
(* other case they queue one entry and return its id, whatever the         *)
(* position.                                                               *)
LimitsValidateAsMarketOpens ==
    \A f \in AnyFractions, p \in AnyPrices :
        FLt(Zero, limitPrice(ex, p))
        => IF BadFraction(f) \/ NoFunds(ex, f)
           THEN /\ LongLimit(ex, p, f) = Placed(ex, 0, ErrInvalidFraction)
                /\ ShortLimit(ex, p, f) = Placed(ex, 0, ErrInvalidFraction)
           ELSE /\ QueuedOne(LongLimit(ex, p, f), pendingOpenLong, p, f)
                /\ QueuedOne(ShortLimit(ex, p, f), pendingOpenShort, p, f)

(* C15, amended: LongLimit and ShortLimit validate the range of the        *)
(* fraction only.  With a resolvable price they fail with InvalidFraction  *)
(* exactly when the fraction is outside (0,1], and otherwise queue one     *)
(* entry and return its id, whatever the position and the funds; the       *)
(* market opens, from a flat and priced exchange, fail with                *)
(* InvalidFraction also when the notional or its net-of-fee amount is not  *)
(* positive.                                                               *)
LimitsValidateFractionRange ==
    \A f \in AnyFractions :
        /\ \A p \in AnyPrices :
               FLt(Zero, limitPrice(ex, p))
               => IF BadFraction(f)
                  THEN /\ LongLimit(ex, p, f) = Placed(ex, 0, ErrInvalidFraction)
                       /\ ShortLimit(ex, p, f) = Placed(ex, 0, ErrInvalidFraction)
                  ELSE /\ QueuedOne(LongLimit(ex, p, f), pendingOpenLong, p, f)
                       /\ QueuedOne(ShortLimit(ex, p, f), pendingOpenShort, p, f)
        /\ (ex.position = Zero /\ FLt(Zero, ex.lastPrice))
           => /\ (OpenLong(ex, f).err = ErrInvalidFraction)
                    <=> (BadFraction(f) \/ NoFunds(ex, f))
              /\ (OpenShort(ex, f).err = ErrInvalidFraction)
                    <=> (BadFraction(f) \/ NoFunds(ex, f))

\* an open-limit of fraction 1 is queued on a priced exchange without funds, where the
\* market open of the same fraction is refused
LimitQueuedWithoutFunds ==
    /\ FLt(Zero, ex.lastPrice)
    /\ ex.position = Zero
    /\ NoFunds(ex, One)
    /\ Len(ex.pending) = 1
    /\ ex.pending[1].kind = pendingOpenLong
    /\ ex.pending[1].fraction = One
    /\ ex.pending[1].placedAtTick = ex.tick
    /\ OpenLong(ex, One).err = ErrInvalidFraction

\* orders i and i+1 of the float64 history are a long opened and closed in the same tick
RoundTrip64(i) ==
    /\ ex.orders[i].Reason = ReasonEntryLong
    /\ ex.orders[i + 1].Side = SideSell
    /\ ex.orders[i + 1].Tick = ex.orders[i].Tick

\* no cost was charged on either order of the round trip
CostFree64(i) ==
    /\ ex.orders[i].ExecPnL = Zero64
    /\ ex.orders[i].Fee = Zero64
    /\ ex.orders[i + 1].ExecPnL = Zero64
    /\ ex.orders[i + 1].Fee = Zero64
    /\ ex.orders[i + 1].PositionAfter = Zero64

(* C16, as stated: zero-cost round trip.  With fee, slippage and spread 0  *)
(* (manual), an OpenLong followed at once by CloseDeal at the same         *)
(* lastPrice returns usd to exactly its value before the open, leaves      *)
(* the position flat, and both orders have ExecPnL = 0 and Fee = 0.        *)
RoundTripExact ==
    \A i \in 1..(Len(ex.orders) - 1) :
        RoundTrip64(i)
        => (CostFree64(i) /\ ex.orders[i + 1].USD = ex.orders[i].EquityBefore)

(* C16, amended: with fee, slippage and spread 0 (manual), an OpenLong     *)
(* followed at once by CloseDeal at the same lastPrice leaves the position *)
(* flat, both orders have ExecPnL = 0 and Fee = 0, and usd returns to its  *)
(* value before the open up to the rounding of float64: to that value or   *)
(* to a float64 next to it.                                                *)
RoundTripWithinRounding ==
    \A i \in 1..(Len(ex.orders) - 1) :
        RoundTrip64(i)
        => (/\ CostFree64(i)
            /\ \/ ex.orders[i + 1].USD = ex.orders[i].EquityBefore
               \/ ex.orders[i + 1].USD = Succ64(ex.orders[i].EquityBefore)
               \/ ex.orders[i].EquityBefore = Succ64(ex.orders[i + 1].USD))

\* a long of the whole balance of 100 was opened and closed at price 11: usd is the
\* float64 next above 100
RoundTripOffByOne ==
    /\ Len(ex.orders) = 2
    /\ RoundTrip64(1)
    /\ ex.position = Zero64
    /\ ex.lastPrice = FromInt(11)
    /\ ex.orders[1].EquityBefore = FromInt(100)
    /\ ex.usd = Succ64(FromInt(100))

\* the miss the tick at the cursor logs for queue entry p
MissOf(reason, p) ==
    [Reason |-> reason,
     Kind |-> IF p.kind = pendingOpenLong THEN "open_long"
              ELSE IF p.kind = pendingOpenShort THEN "open_short" ELSE "close",
     LimitPrice |-> p.price, PlacedTick |-> p.placedAtTick, CheckTick |-> index + 1,
     PrevBar |-> p.placedBar, CurrBar |-> NextBar]

\* positions behind the head, up to i, whose entries were placed before the coming tick
DueBehind(i) == {j \in 2..i : ex.pending[j].placedAtTick < index + 1}

(* C17: miss log of a blocked tick.  When Next() processes a tick and the  *)
(* head of the queue was placed at an earlier tick but is priced outside   *)
(* the bar, the miss log grows by one price_not_in_hl miss for the head    *)
(* followed by one blocked_by_fifo_head miss for each entry behind it      *)
(* that was placed before this tick, in queue order and by nothing else;   *)
(* each miss carries the tick as CheckTick and the entry's own kind, price *)
(* and placement tick; every entry stays queued.                           *)
BlockedTickMisses ==
    [][(/\ NextSucceeds
        /\ Len(ex.pending) > 0
        /\ ex.pending[1].placedAtTick < index + 1
        /\ ~Inside(ex.pending[1].price, NextBar))
       => (/\ Len(ex'.misses)
                = Len(ex.misses) + 1 + Cardinality(DueBehind(Len(ex.pending)))
           /\ SubSeq(ex'.misses, 1, Len(ex.misses)) = ex.misses
           /\ ex'.misses[Len(ex.misses) + 1] = MissOf("price_not_in_hl", ex.pending[1])
           /\ \A i \in DueBehind(Len(ex.pending)) :
                  ex'.misses[Len(ex.misses) + 1 + Cardinality(DueBehind(i))]
                     = MissOf("blocked_by_fifo_head", ex.pending[i])
           /\ Entries(ex') = Entries(ex)
           /\ ex'.limitFailed.price_not_in_hl = ex.limitFailed.price_not_in_hl + 1)]_vars

\* the last tick logged a miss for the head and a blocked miss for each of the two
\* entries behind it
TwoBlockedBehindHead ==
    /\ Len(ex.pending) = 3
    /\ Len(ex.misses) >= 3
    /\ ex.misses[Len(ex.misses) - 2].Reason = "price_not_in_hl"
    /\ ex.misses[Len(ex.misses) - 2].CheckTick = ex.tick
    /\ ex.misses[Len(ex.misses) - 1].Reason = "blocked_by_fifo_head"
    /\ ex.misses[Len(ex.misses) - 1].CheckTick = ex.tick
    /\ ex.misses[Len(ex.misses)].Reason = "blocked_by_fifo_head"
    /\ ex.misses[Len(ex.misses)].CheckTick = ex.tick
    /\ ex.misses[Len(ex.misses)].Kind # ex.misses[Len(ex.misses) - 1].Kind

\* the sum of the counts of a Reasons map over the keys in S
RECURSIVE SumOver(_, _)
SumOver(counts, S) ==
    IF S = {} THEN 0
    ELSE counts[CHOOSE k \in S : TRUE] + SumOver(counts, S \ {CHOOSE k \in S : TRUE})

\* misses of the log with the given reason
Logged(reason) == Cardinality({i \in 1..Len(ex.misses) : ex.misses[i].Reason = reason})

\* queued entries whose last reason is the given one
QueuedUnder(reason) ==
    Cardinality({i \in 1..Len(ex.pending) : ex.pending[i].lastReason = reason})

(* C18: LimitDiagnostics aggregates past failures and the current queue.   *)
(* In every reachable state PendingTotal is the sum of the counts in       *)
(* Reasons, which is the two cumulative counters (one price_not_in_hl per  *)
(* logged head miss, one position_state_mismatch per drop) plus one count  *)
(* per queued entry under its last reason, await_next_candle for an entry  *)
(* placed since the last tick; Misses is the whole miss log; the call      *)
(* leaves the Exchange as it was; no step shortens the miss log or changes *)
(* an entry of it.                                                         *)
DiagnosticsAggregate ==
    /\ [](/\ LimitDiagnostics(ex).diag.PendingTotal
                = SumOver(LimitDiagnostics(ex).diag.Reasons, ReasonKeys)
          /\ LimitDiagnostics(ex).diag.PendingTotal
                = ex.limitFailed.price_not_in_hl + ex.limitFailed.position_state_mismatch
                  + Len(ex.pending)
          /\ LimitDiagnostics(ex).diag.Reasons["price_not_in_hl"]
                = ex.limitFailed.price_not_in_hl + QueuedUnder("price_not_in_hl")
          /\ LimitDiagnostics(ex).diag.Reasons["position_state_mismatch"]
                = ex.limitFailed.position_state_mismatch
          /\ LimitDiagnostics(ex).diag.Reasons["await_next_candle"]
                = QueuedUnder("await_next_candle")
          /\ LimitDiagnostics(ex).diag.Reasons["blocked_by_fifo_head"]
                = QueuedUnder("blocked_by_fifo_head")
          /\ LimitDiagnostics(ex).diag.Reasons["unknown"] = 0
          /\ ex.limitFailed.price_not_in_hl = Logged("price_not_in_hl")
          /\ \A i \in 1..Len(ex.pending) :
                 (ex.pending[i].lastReason = "await_next_candle")
                 <=> (ex.pending[i].placedAtTick = ex.tick)
          /\ LimitDiagnostics(ex).diag.Misses = ex.misses
          /\ LimitDiagnostics(ex).e = ex)
    /\ [][/\ Len(ex'.misses) >= Len(ex.misses)
          /\ SubSeq(ex'.misses, 1, Len(ex.misses)) = ex.misses]_vars

\* a drop and a head miss are counted, and an entry placed since the last tick is queued
\* behind the head that missed
DiagnosticsOfAllKinds ==
    /\ ex.limitFailed.position_state_mismatch >= 1
    /\ ex.limitFailed.price_not_in_hl >= 1
    /\ Len(ex.pending) = 2
    /\ ex.pending[1].lastReason = "price_not_in_hl"
    /\ ex.pending[2].lastReason = "await_next_candle"
    /\ LimitDiagnostics(ex).diag.PendingTotal = 4
    /\ LimitDiagnostics(ex).diag.Reasons["price_not_in_hl"] = 2

\* arguments given to NewExchange, in and out of range
AnyRates == {FNeg(One), Zero, F(1, 2), One, F(2, 1)}

\* r lies in [0, 1)
InUnit(r) == FLe(Zero, r) /\ FLt(r, One)

\* what NewExchange is stated to build from its arguments
Clamped(e, startUSD, fee, slippagePct, spreadPct) ==
    /\ e.usd = IF FLt(startUSD, Zero) THEN Zero ELSE startUSD
    /\ e.fee = IF FLt(fee, Zero) THEN Zero ELSE fee
    /\ e.slippagePct = IF InUnit(slippagePct) THEN slippagePct ELSE Zero
    /\ e.spreadManual = InUnit(spreadPct)
    /\ InUnit(spreadPct) => e.spreadPct = spreadPct

(* C19: construction clamps and manual spread.  NewExchange sets usd to    *)
(* max(startUSD, 0), fee to max(fee, 0), slippage to the value given when  *)
(* it is in [0,1) and to 0 otherwise; a spread in [0,1), 0 included,       *)
(* selects manual mode, where the spread stays the constructed value over  *)
(* every tick and every order records it as SpreadPct; a spread outside    *)
(* [0,1) selects the dynamic model, which sets the spread at each tick     *)
(* within its clamp of 0.5bp to 20bp.                                      *)
ConstructionClamps ==
    /\ \A u \in AnyRates, f \in AnyRates, sl \in AnyRates, sp \in AnyRates :
           Clamped(NewExchange("enj", u, f, sl, sp), u, f, sl, sp)
    /\ [](ex.spreadManual
          => (/\ ex.spreadPct = CfgCosts.spreadPct
              /\ ex.slippagePct = CfgCosts.slippagePct
              /\ \A i \in 1..Len(ex.orders) : ex.orders[i].SpreadPct = CfgCosts.spreadPct))
    /\ [](~ex.spreadManual
          => (/\ ex.usd = Zero /\ ex.fee = Zero /\ ex.slippagePct = Zero
              /\ ex.tick > 0 => /\ FLe(F(5, 100000), ex.spreadPct)
                                 /\ FLe(ex.spreadPct, F(20, 10000))
              /\ ex.tick = 2 => ex.spreadPct # F(1, 10000)))
    /\ [][ex'.spreadManual = ex.spreadManual]_vars

\* three ticks in manual mode: two orders were filled and recorded the constructed spread
ManualSpreadKept ==
    /\ ex.spreadManual
    /\ ex.tick = 3
    /\ ex.spreadPct = F(2, 3)
    /\ Len(ex.orders) = 2
    /\ ex.orders[1].Tick < ex.orders[2].Tick
    /\ ex.orders[1].SpreadPct = F(2, 3)
    /\ ex.orders[1].Price # ex.orders[1].MidPrice

\* the price a side pays for mid under the spread and slippage recorded in order o
CostedPrice(o, mid) ==
    IF o.Side = SideBuy
    THEN FMul(FMul(mid, FAdd(One, FDiv(o.SpreadPct, F(2, 1)))), FAdd(One, o.SlippagePct))
    ELSE FMul(FMul(mid, FSub(One, FDiv(o.SpreadPct, F(2, 1)))), FSub(One, o.SlippagePct))

\* the queued order with this id
QueuedAs(e, id) == CHOOSE p \in {e.pending[i] : i \in 1..Len(e.pending)} : p.id = id

\* the ids the step has filled from the queue
FilledIds == DOMAIN ex'.executedByID \ DOMAIN ex.executedByID

(* C20: a filled limit executes at its own limit price.  Every order       *)
(* created from a pending limit has MidPrice equal to the limit price      *)
(* recorded at placement and Price equal to that price adjusted by spread  *)
(* and slippage for its side, whatever the bar's open, close and average;  *)
(* a position opened by an open-limit has entryPrice equal to that         *)
(* execution price.                                                        *)
LimitFillsAtLimitPrice ==
    /\ [][\A id \in FilledIds :
             /\ id \in QueuedIds(ex)
             /\ ex'.executedByID[id].MidPrice = QueuedAs(ex, id).price
             /\ ex'.executedByID[id].Price
                    = CostedPrice(ex'.executedByID[id], QueuedAs(ex, id).price)
             /\ ex'.executedByID[id].SpreadPct = ex'.spreadPct
             /\ ex'.executedByID[id].SlippagePct = ex.slippagePct
             /\ QueuedAs(ex, id).kind = pendingOpenLong
                    => /\ ex'.executedByID[id].Side = SideBuy
                       /\ ex'.executedByID[id].EntryPrice = ex'.executedByID[id].Price
             /\ QueuedAs(ex, id).kind = pendingOpenShort
                    => /\ ex'.executedByID[id].Side = SideSell
                       /\ ex'.executedByID[id].EntryPrice = ex'.executedByID[id].Price]_vars
    /\ [](ex.position # Zero
            => /\ Len(ex.orders) > 0
               /\ ex.entryPrice = ex.orders[Len(ex.orders)].Price)

\* a long limit placed at 2 filled in the wide bar: bought at 4 while the bar closed at 3
LimitFilledInsideWideBar ==
    /\ ex.spreadManual
    /\ ex.tick = 2
    /\ ex.lastPrice = F(3, 1)
    /\ Len(ret.orders) = 1
    /\ ret.orders[1].Side = SideBuy
    /\ ret.orders[1].MidPrice = F(2, 1)
    /\ ret.orders[1].Price = F(4, 1)
    /\ ret.orders[1].PlacedTick = 1
    /\ FLt(Zero, ex.position)
    /\ ex.entryPrice = F(4, 1)

\* min(low, high) <= price <= max(low, high)
InNormalizedRange(price, bar) ==
    IF FLt(bar.High, bar.Low)
    THEN FLe(bar.High, price) /\ FLe(price, bar.Low)
    ELSE FLe(bar.Low, price) /\ FLe(price, bar.High)

\* this step is a successful Next() that finds a head placed at an earlier tick
HeadDueStep ==
    /\ NextSucceeds
    /\ Len(ex.pending) > 0
    /\ ex.pending[1].placedAtTick < index + 1

\* the step has taken the head out of the queue
HeadProcessed == ex.pending[1].id \notin QueuedIds(ex')

\* the step has taken nothing out of the queue and executed nothing
ProcessingStopped == Entries(ex') = Entries(ex) /\ ret'.orders = <<>>

(* C21, as stated: the head is evaluated against the normalized bar range. *)
(* For every bar accepted by a tick (close > 0, the other values           *)
(* non-negative, low and high in either order) a head placed at an earlier *)
(* tick is processed in that tick exactly when min(low, high) <= p <=      *)
(* max(low, high); otherwise processing stops for the tick.                *)
HeadFollowsNormalizedRange ==
    [][HeadDueStep
         => /\ HeadProcessed <=> InNormalizedRange(ex.pending[1].price, NextBar)
            /\ ~HeadProcessed => ProcessingStopped]_vars

(* C21, amended: the same for bars whose low and high are both positive;   *)
(* when low or high is zero the head is never processed, whatever its      *)
(* price.                                                                  *)
HeadFollowsPositiveRange ==
    [][HeadDueStep
         => /\ HeadProcessed
                  <=> (/\ FLt(Zero, NextBar.Low)
                       /\ FLt(Zero, NextBar.High)
                       /\ InNormalizedRange(ex.pending[1].price, NextBar))
            /\ ~HeadProcessed => ProcessingStopped]_vars

\* a limit at 2 filled in the bar whose low 3 lies above its high 3/2, and a
\* limit at 1 placed behind it was left waiting by the bar with a low of zero
FilledInSwappedBar ==
    /\ ex.tick = 3
    /\ ex.lastBar = BarZeroLow
    /\ Len(ex.orders) = 1
    /\ ex.orders[1].Tick = 2
    /\ ex.orders[1].MidPrice = F(2, 1)
    /\ Len(ex.pending) = 1
    /\ ex.pending[1].placedAtTick = 2
    /\ ex.pending[1].lastReason = "price_not_in_hl"

(* C22: closing leaves lastPrice unchanged.  Every close (CloseDeal, a     *)
(* filled CloseLimit at a price other than the bar's close, a liquidation) *)
(* restores lastPrice to the value it had before, so after any successful  *)
(* tick Balance().LastPrice is that bar's close, whatever limit prices     *)
(* were executed in the tick.                                              *)
ClosesRestoreLastPrice ==
    /\ [][ex'.lastPrice = IF NextSucceeds THEN NextBar.Close ELSE ex.lastPrice]_vars
    /\ [](index > 0 => Balance(ex).LastPrice = bars[index].Close)
    /\ [](\A reason \in Reasons :
            CloseDeal(ex, reason).err = ErrNone
                => CloseDeal(ex, reason).e.lastPrice = ex.lastPrice)

\* a stop-loss CloseLimit at 2 sold the long in the bar that closed at 3
ClosedBelowTheClose ==
    /\ ex.tick = 2
    /\ Len(ret.orders) = 1
    /\ ret.orders[1].Side = SideSell
    /\ ret.orders[1].Reason = ReasonStopLoss
    /\ ret.orders[1].MidPrice = F(2, 1)
    /\ ret.bar.Close = F(3, 1)
    /\ ex.position = Zero
    /\ Balance(ex).LastPrice = F(3, 1)

\* the step has appended exactly one order, an entry of the given reason, from a flat state
OpenedFromFlat(reason) ==
    /\ ex.position = Zero
    /\ Len(ex'.orders) = Len(ex.orders) + 1
    /\ LastOrder(ex').Reason = reason

\* the long entry o took the fraction f of the usd balance of e and left e2
LongOpenedWith(e, e2, o, f) ==
    /\ e2.usd = FSub(e.usd, FMul(e.usd, f))
    /\ o.Fee = FMul(FMul(e.usd, f), e.fee)
    /\ o.Side = SideBuy
    /\ o.Price = CostedPrice(o, o.MidPrice)
    /\ o.Qty = FDiv(FSub(FMul(e.usd, f), o.Fee), o.Price)
    /\ o.ExecPnL = FMul(o.Qty, FSub(o.MidPrice, o.Price))
    /\ e2.position = o.Qty
    /\ e2.entryPrice = o.Price
    /\ e2.shortCash = e.shortCash
    /\ e2.shortMargin = e.shortMargin

(* C23: opening a long, by a market order or a filled limit, from a flat   *)
(* state with balance usd and fraction f: notional = usd*f, fee =          *)
(* notional*feeRate, qty = (notional - fee)/execPrice with execPrice the   *)
(* buy-side price of the mid; afterwards usd is lower by the full          *)
(* notional, position = qty, entryPrice = execPrice, shortCash and         *)
(* shortMargin are unchanged, and the order records Fee = fee and          *)
(* ExecPnL = qty*(mid - execPrice).                                        *)
LongOpenArithmetic ==
    /\ [][OpenedFromFlat(ReasonEntryLong)
            => \E f \in Fractions \cup LimitFractions :
                   LongOpenedWith(ex, ex', LastOrder(ex'), f)]_vars
    /\ [](\A f \in Fractions :
            OpenLong(ex, f).err = ErrNone
                => /\ ex.position = Zero
                   /\ OpenLong(ex, f).order[1].MidPrice = ex.lastPrice
                   /\ LongOpenedWith(ex, OpenLong(ex, f).e, OpenLong(ex, f).order[1], f))

\* a long limit at 2 for the whole balance of 1000 filled: fee 100, 900 buy 225 at 4
LongLimitFilledForAll ==
    /\ ex.tick = 2
    /\ Len(ex.orders) = 1
    /\ ex.orders[1].Reason = ReasonEntryLong
    /\ ex.orders[1].PlacedTick = 1
    /\ ex.orders[1].MidPrice = F(2, 1)
    /\ ex.orders[1].Price = F(4, 1)
    /\ ex.orders[1].Fee = F(100, 1)
    /\ ex.orders[1].ExecPnL = F(-450, 1)
    /\ ex.usd = Zero
    /\ ex.position = F(225, 1)
    /\ ex.entryPrice = F(4, 1)

\* the short entry o took the fraction f of the usd balance of e and left e2
ShortOpenedWith(e, e2, o, f) ==
    /\ e2.usd = FSub(e.usd, FMul(e.usd, f))
    /\ o.Side = SideSell
    /\ o.Price = CostedPrice(o, o.MidPrice)
    /\ e2.position = FNeg(FDiv(FMul(e.usd, f), o.Price))
    /\ e2.shortCash = FSub(FMul(e.usd, f), FMul(FMul(e.usd, f), e.fee))

\* what buying back the short of e at mid costs, fee included
BuyBackTotal(e, mid) ==
    FMul(FMul(FNeg(e.position), execPrice(e, SideBuy, mid)), FAdd(One, e.fee))

\* shortCash + shortMargin of e cover the buy-back at mid
Backed(e, mid) == FLe(BuyBackTotal(e, mid), FAdd(e.shortCash, e.shortMargin))

\* closing e at mid is not a liquidation
ClosesUnliquidated(e, mid) == closeAtPrice(e, mid, "", "").order.Reason # ReasonLiquidate

\* (1 + fee) * buy-side price <= (2 - fee) * sell-side price, at any mid
CostsWithinBacking(e) ==
    FLe(FMul(FAdd(One, e.fee), execPrice(e, SideBuy, One)),
        FMul(FSub(F(2, 1), e.fee), execPrice(e, SideSell, One)))

(* C24, as stated: opening a short from a flat state lowers usd by         *)
(* notional = usd*fraction, sets position = -notional/execPrice (sell      *)
(* side) and shortCash = notional minus the fee, and for every valid       *)
(* configuration shortCash + shortMargin right after the open is at least  *)
(* the total cost of closing at the same mid price, so that such an        *)
(* immediate close is never a liquidation.                                 *)
ShortOpenAlwaysBacked ==
    [][OpenedFromFlat(ReasonEntryShort)
         => /\ \E f \in Fractions \cup LimitFractions :
                   ShortOpenedWith(ex, ex', LastOrder(ex'), f)
            /\ Backed(ex', LastOrder(ex').MidPrice)
            /\ ClosesUnliquidated(ex', LastOrder(ex').MidPrice)]_vars

(* C24, amended: the same amounts, with shortMargin = notional; the two    *)
(* accounts cover the immediate close at the same mid exactly when         *)
(* (1 + fee) * buy-side price <= (2 - fee) * sell-side price, and          *)
(* otherwise that close is a liquidation.                                  *)
ShortOpenBackedWithinCosts ==
    [][OpenedFromFlat(ReasonEntryShort)
         => /\ \E f \in Fractions \cup LimitFractions :
                   /\ ShortOpenedWith(ex, ex', LastOrder(ex'), f)
                   /\ ex'.shortMargin = FMul(ex.usd, f)
            /\ Backed(ex', LastOrder(ex').MidPrice) <=> CostsWithinBacking(ex')
            /\ ClosesUnliquidated(ex', LastOrder(ex').MidPrice)
                   <=> CostsWithinBacking(ex')]_vars

\* half of 1000 sold short at 1 with fee 1/10 and no other cost: 950 held against
\* a buy-back of 550
ShortOpenedAndBacked ==
    /\ ex.fee = F(1, 10)
    /\ ex.slippagePct = Zero
    /\ Len(ex.orders) = 1
    /\ ex.orders[1].Reason = ReasonEntryShort
    /\ ex.usd = F(500, 1)
    /\ ex.position = F(-500, 1)
    /\ ex.shortCash = F(450, 1)
    /\ ex.shortMargin = F(500, 1)
    /\ BuyBackTotal(ex, ex.orders[1].MidPrice) = F(550, 1)
    /\ CloseDeal(ex, "").order[1].Reason # ReasonLiquidate

\* closing prices and reasons given to closeAtPrice
ClosePrices == {One, F(2, 1)}

CloseReasons == {ReasonExit, ReasonStopLoss}

\* the covered close of the short of e at mid has left the state e2 and the order o
ShortCovered(e, e2, o) ==
    /\ e2.usd = FAdd(e.usd, FSub(FAdd(e.shortCash, e.shortMargin), FAdd(FMul(o.Qty, o.Price), o.Fee)))
    /\ e2.shortCash = Zero
    /\ e2.shortMargin = Zero
    /\ e2.position = Zero
    /\ e2.entryPrice = Zero
    /\ o.Side = SideBuy
    /\ o.Qty = FNeg(e.position)
    /\ o.Fee = FMul(FMul(o.Qty, o.Price), e.fee)

\* the cost is taken from shortCash first, from shortMargin for the remainder only
PaidCashFirst(e, total) ==
    /\ FLe(Zero, marginLeft(e, total))
    /\ FLe(Zero, cashLeft(e, total))
    /\ FLt(Zero, cashLeft(e, total)) => marginLeft(e, total) = e.shortMargin
    /\ FLt(marginLeft(e, total), e.shortMargin) => cashLeft(e, total) = Zero
    /\ FAdd(cashLeft(e, total), marginLeft(e, total))
           = FSub(FAdd(e.shortCash, e.shortMargin), total)

(* C25: closing a short without liquidation (shortCash + shortMargin >=    *)
(* total, total = qty*execPrice + fee).  The cost is taken from shortCash  *)
(* first and from shortMargin only for the remainder, shortMargin never    *)
(* becomes negative; afterwards usd has grown by shortCash + shortMargin - *)
(* total (their values before the close), shortCash = shortMargin = 0,     *)
(* position = 0, entryPrice = 0, and the order keeps the caller's reason.  *)
ShortCloseSweepsAccounts ==
    /\ [](FLt(ex.position, Zero)
            => \A mid \in ClosePrices, reason \in CloseReasons :
                   Backed(ex, mid)
                     => /\ ShortCovered(ex, closeAtPrice(ex, mid, reason, "").e,
                                         closeAtPrice(ex, mid, reason, "").order)
                        /\ closeAtPrice(ex, mid, reason, "").order.Reason = reason
                        /\ closeAtPrice(ex, mid, reason, "").order.MidPrice = mid
                        /\ PaidCashFirst(ex, BuyBackTotal(ex, mid)))
    /\ [][(/\ FLt(ex.position, Zero)
            /\ Len(ex'.orders) = Len(ex.orders) + 1
            /\ LastOrder(ex').Reason # ReasonLiquidate)
             => /\ FLe(FAdd(FMul(LastOrder(ex').Qty, LastOrder(ex').Price), LastOrder(ex').Fee),
                        FAdd(ex.shortCash, ex.shortMargin))
                /\ ShortCovered(ex, ex', LastOrder(ex'))]_vars

\* a short of 500 sold at 2 was bought back at 1 for 275, paid from shortCash alone:
\* usd grew from 500 to 500 + 450 + 500 - 275
ShortCoveredFromCash ==
    /\ Len(ex.orders) = 2
    /\ ex.orders[1].Reason = ReasonEntryShort
    /\ ex.orders[1].ShortCash = F(450, 1)
    /\ ex.orders[1].ShortMargin = F(500, 1)
    /\ ex.orders[2].Reason = ReasonStopLoss
    /\ ex.orders[2].Qty = F(250, 1)
    /\ ex.orders[2].Price = One
    /\ ex.orders[2].Fee = F(25, 1)
    /\ ex.usd = F(1175, 1)
    /\ ex.shortCash = Zero
    /\ ex.shortMargin = Zero
    /\ ex.position = Zero

\* 0.0001 + 0.01 * |close - prevClose| / prevClose, clamped to [0.00005, 0.0020]
DynamicSpreadOf(prevClose, close) ==
    LET raw == FAdd(F(1, 10000),
                    FMul(F(1, 100), FDiv(FAbs(FSub(close, prevClose)), prevClose)))
    IN  IF FLt(raw, F(5, 100000)) THEN F(5, 100000)
        ELSE IF FLt(F(20, 10000), raw) THEN F(20, 10000)
        ELSE raw

(* C26: dynamic spread model.  In dynamic mode, after every successful     *)
(* tick the spread is 0.0001 + 0.01*|close - prevClose|/prevClose clamped  *)
(* to [0.00005, 0.0020], with a zero return on the first tick (spread      *)
(* exactly 0.0001); hence every order executed in dynamic mode records a   *)
(* SpreadPct within [0.00005, 0.0020].                                     *)
DynamicSpreadModel ==
    /\ [][ex'.spreadPct = IF ~NextSucceeds THEN ex.spreadPct
                          ELSE IF index = 0 THEN F(1, 10000)
                          ELSE DynamicSpreadOf(bars[index].Close, NextBar.Close)]_vars
    /\ [](~ex.spreadManual)
    /\ [](\A i \in 1..Len(ex.orders) :
            /\ FLe(F(5, 100000), ex.orders[i].SpreadPct)
            /\ FLe(ex.orders[i].SpreadPct, F(20, 10000))
            /\ ex.orders[i].SpreadPct
                   = IF ex.orders[i].Tick = 1 THEN F(1, 10000)
                     ELSE DynamicSpreadOf(bars[ex.orders[i].Tick - 1].Close,
                                          bars[ex.orders[i].Tick].Close))

\* orders at 1bp, on the first tick, and at the upper limit of 20bp, after the price
\* doubled, and a spread of 2bp after a return of 1%
SpreadsOfFourTicks ==
    /\ index = 4
    /\ ex.spreadPct = F(2, 10000)
    /\ Len(ex.orders) = 2
    /\ ex.orders[1].SpreadPct = F(1, 10000)
    /\ ex.orders[2].SpreadPct = F(20, 10000)
    /\ ex.orders[2].Price # ex.orders[2].MidPrice

\* a placement call with result r has appended one entry under the next pending id,
\* or has failed and changed nothing
PlacedAtTail(r) ==
    IF r.err = ErrNone
    THEN /\ r.id = ex.nextLimitID + 1
         /\ r.e.nextLimitID = r.id
         /\ r.e.nextID = ex.nextID
         /\ Len(r.e.pending) = Len(ex.pending) + 1
         /\ SubSeq(r.e.pending, 1, Len(ex.pending)) = ex.pending
         /\ r.e.pending[Len(r.e.pending)].id = r.id
         /\ r.e.pending[Len(r.e.pending)].placedAtTick = ex.tick
    ELSE r.id = 0 /\ r.e = ex

\* s is t without its first k entries, for some k
IsSuffix(s, t) == \E k \in 0..Len(t) : s = SubSeq(t, k + 1, Len(t))

(* C27: strict FIFO queue with its own id counter.  In every reachable     *)
(* state the queue holds its entries in strictly increasing pending-id     *)
(* order and non-decreasing placement tick; LongLimit, ShortLimit and      *)
(* CloseLimit append at the tail and return ids 1, 2, 3, ... from a        *)
(* counter that is independent of order ids and is not consumed by a       *)
(* failed placement; entries are removed only from the head, so pending    *)
(* orders leave the queue in the order they were placed.                   *)
StrictFifoQueue ==
    /\ ex.nextLimitID = 0
    /\ [](\A i \in 1..Len(ex.pending) :
            /\ ex.pending[i].id \in 1..ex.nextLimitID
            /\ i > 1 => /\ ex.pending[i - 1].id < ex.pending[i].id
                        /\ ex.pending[i - 1].placedAtTick <= ex.pending[i].placedAtTick)
    /\ [](\A p \in LimitPrices :
            /\ \A f \in LimitFractions :
                   PlacedAtTail(LongLimit(ex, p, f)) /\ PlacedAtTail(ShortLimit(ex, p, f))
            /\ \A reason \in LimitReasons, sk \in StopKinds :
                   PlacedAtTail(CloseLimit(ex, p, reason, sk)))
    /\ [][IF NextSucceeds
          THEN /\ IsSuffix(Entries(ex'), Entries(ex))
               /\ ex'.nextLimitID = ex.nextLimitID
          ELSE /\ Entries(ex) = SubSeq(Entries(ex'), 1, Len(ex.pending))
               /\ ex'.nextLimitID = ex.nextLimitID + (Len(ex'.pending) - Len(ex.pending))
               /\ Len(ex'.pending) # Len(ex.pending) => ex'.nextID = ex.nextID]_vars

\* of three limits placed at tick 2, the first was dropped and the second filled as
\* order 1; the third, pending id 3, is now the head
ThirdLimitIsHead ==
    /\ ex.tick = 3
    /\ ex.nextLimitID = 3
    /\ ex.nextID = 1
    /\ Len(ex.pending) = 1
    /\ ex.pending[1].id = 3
    /\ ex.limitFailed.position_state_mismatch = 1
    /\ DOMAIN ex.executedByID = {2}
    /\ ex.executedByID[2].ID = 1

(* C28: Balance() is a pure snapshot.  In every reachable state its Equity *)
(* is usd + shortCash + shortMargin + position*lastPrice when              *)
(* lastPrice > 0 and usd + shortCash + shortMargin otherwise (no other     *)
(* price values the position), its other fields are the stored usd,        *)
(* position, shortCash, shortMargin, entryPrice and lastPrice, and calling *)
(* it changes no state.                                                    *)
BalanceIsSnapshot ==
    /\ Balance(ex).Equity
           = IF FLt(Zero, ex.lastPrice)
             THEN FAdd(FAdd(ex.usd, ex.shortCash),
                       FAdd(ex.shortMargin, FMul(ex.position, ex.lastPrice)))
             ELSE FAdd(ex.usd, FAdd(ex.shortCash, ex.shortMargin))
    /\ Balance(ex).USD = ex.usd
    /\ Balance(ex).Position = ex.position
    /\ Balance(ex).ShortCash = ex.shortCash
    /\ Balance(ex).ShortMargin = ex.shortMargin
    /\ Balance(ex).EntryPrice = ex.entryPrice
    /\ Balance(ex).LastPrice = ex.lastPrice
    /\ DOMAIN Balance(ex)
           = {"USD", "Position", "ShortCash", "ShortMargin", "Equity", "EntryPrice", "LastPrice"}
    /\ FLe(ex.lastPrice, Zero) => ex.position = Zero /\ ex.entryPrice = Zero

\* 225 bought at 2 are worth 3 each when the bar closes at 3: equity 500 + 675
LongValuedAtLastPrice ==
    /\ ex.position = F(225, 1)
    /\ ex.entryPrice = F(2, 1)
    /\ ex.lastPrice = F(3, 1)
    /\ ex.usd = F(500, 1)
    /\ Balance(ex).Equity = F(1175, 1)

(* C29: cursor and tick move together.  After any sequence of operations   *)
(* the Exchange's tick equals the Emulator's cursor index, the number of   *)
(* successful Next() calls so far; the k-th successful Next() processes    *)
(* bar k at tick k and advances the cursor by exactly 1; a failing Next()  *)
(* (NoMoreBars or a rejected bar) advances neither cursor nor tick.        *)
CursorAndTickTogether ==
    /\ index = 0
    /\ [](ex.tick = index /\ index \in 0..Len(bars))
    /\ [](index > 0 => ex.lastBar = bars[index] /\ ex.lastPrice = bars[index].Close)
    /\ [][IF index' # index
          THEN /\ CanAdvance
               /\ index' = index + 1
               /\ ex'.tick = index + 1
               /\ ret' = Ret(bars[index + 1], executedSince(ex.orders, ex'.orders), ErrNone)
          ELSE /\ ex'.tick = ex.tick
               /\ ret' # ret => /\ ~CanAdvance
                                /\ ret'.err \in {ErrNoMoreBars, ErrPriceNotPositive}
                                /\ ex' = ex]_vars

\* the second bar was rejected: cursor and tick stay at 1
RejectedBarMovesNeither ==
    /\ index = 1
    /\ ex.tick = 1
    /\ Len(bars) = 3
    /\ bars[2] = BarBad
    /\ ret.err = ErrPriceNotPositive
    /\ ex.lastBar = bars[1]

(* C30: short accounts are live only while short.  In every reachable      *)
(* state shortCash and shortMargin are both 0 whenever position >= 0 (flat *)
(* or long) and both positive whenever position < 0.                       *)
ShortAccountsOnlyWhileShort ==
    IF FLt(ex.position, Zero)
    THEN FLt(Zero, ex.shortCash) /\ FLt(Zero, ex.shortMargin)
    ELSE ex.shortCash = Zero /\ ex.shortMargin = Zero

\* short again after a covered short: the accounts were emptied by the close and
\* filled by the second entry
ShortAgainAfterCover ==
    /\ Len(ex.orders) = 3
    /\ ex.orders[1].Reason = ReasonEntryShort
    /\ FLt(Zero, ex.orders[1].ShortCash)
    /\ ex.orders[2].Reason = ReasonExit
    /\ ex.orders[2].ShortCash = Zero
    /\ ex.orders[2].ShortMargin = Zero
    /\ ex.orders[3].Reason = ReasonEntryShort
    /\ FLt(ex.position, Zero)
    /\ FLt(Zero, ex.shortCash)
    /\ FLt(ex.shortCash, ex.shortMargin)

(* C31, as stated: a liquidation is recorded as a loss.  Every order with  *)
(* reason "liquidation", on any price path and in any valid configuration, *)
(* has EquityBefore >= 0, therefore ExecPnL <= 0, and a post-trade Equity  *)
(* of 0.                                                                   *)
LiquidationIsALoss ==
    \A i \in 1..Len(ex.orders) :
        ex.orders[i].Reason = ReasonLiquidate
            => /\ FLe(Zero, ex.orders[i].EquityBefore)
               /\ FLe(ex.orders[i].ExecPnL, Zero)
               /\ ex.orders[i].Equity = Zero

(* C32: cash balances never go negative.  In every reachable state, for    *)
(* the configurations with fee 1/10, with fee 1 and with clamped inputs,   *)
(* on every price path, usd >= 0, shortCash >= 0 and shortMargin >= 0; the *)
(* balances snapshotted into the orders of the history are >= 0 as well.   *)
CashNeverNegative ==
    /\ FLe(Zero, ex.usd)
    /\ FLe(Zero, ex.shortCash)
    /\ FLe(Zero, ex.shortMargin)
    /\ \A i \in 1..Len(ex.orders) :
           /\ FLe(Zero, ex.orders[i].USD)
           /\ FLe(Zero, ex.orders[i].ShortCash)
           /\ FLe(Zero, ex.orders[i].ShortMargin)

\* all of usd went into a short; its buy-back cost more than shortCash held, so
\* that shortMargin paid the remainder and the rest came back as usd
MarginPaidTheRemainder ==
    \E i \in 2..Len(ex.orders) :
        /\ ex.orders[i - 1].Reason = ReasonEntryShort
        /\ ex.orders[i - 1].USD = Zero
        /\ ex.orders[i].Side = SideBuy
        /\ ex.orders[i].Reason # ReasonLiquidate
        /\ FLt(ex.orders[i - 1].ShortCash,
               FAdd(FMul(ex.orders[i].Qty, ex.orders[i].Price), ex.orders[i].Fee))
        /\ FLt(Zero, ex.orders[i].USD)
        /\ FLt(ex.orders[i].USD, ex.orders[i - 1].ShortMargin)
        /\ FLt(Zero, ex.fee)

\* the history entry of e for the limit id that e has filled
HistoryOf(e, id) ==
    e.orders[CHOOSE k \in 1..Len(e.orders) : e.orders[k].ID = e.executedByID[id].ID]

(* C33, as stated: PlacedTick of filled limits in the history.  Every      *)
(* order of Orders() created by filling a pending limit (open-long,        *)
(* open-short or close) has PlacedTick equal to the tick at which the      *)
(* limit was placed, strictly less than the order's Tick; every order      *)
(* created by a market call has PlacedTick equal to its Tick.              *)
PlacedTickInHistory ==
    [][/\ \A id \in FilledIds :
              /\ HistoryOf(ex', id).PlacedTick = QueuedAs(ex, id).placedAtTick
              /\ HistoryOf(ex', id).PlacedTick < HistoryOf(ex', id).Tick
       /\ (index' = index /\ Len(ex'.orders) > Len(ex.orders))
              => LastOrder(ex').PlacedTick = LastOrder(ex').Tick]_vars

\* EquityBefore + ExecPnL - Fee of order o, computed in float64
Accounted64(o) == Sub64(Add64(o.EquityBefore, o.ExecPnL), o.Fee)

\* a and b are the same float64 or next to each other
Near64(a, b) == a = b \/ b = Succ64(a) \/ a = Succ64(b)

Wiped(e) == e.position = Zero /\ e.usd = Zero

\* on a wiped account no step appends to the history, fills a limit or restores usd
StaysWiped ==
    Wiped(ex) => /\ Wiped(ex')
                 /\ ex'.orders = ex.orders
                 /\ ex'.executedByID = ex.executedByID
                 /\ NextSucceeds => ret'.orders = <<>>

\* both opens fail with err and CloseDeal fails with NoPosition, the Exchange untouched
CallsRefused(e, err) ==
    /\ \A f \in AnyFractions :
           /\ OpenLong(e, f).err = err
           /\ OpenLong(e, f).e = e
           /\ OpenShort(e, f).err = err
           /\ OpenShort(e, f).e = e
    /\ \A reason \in LimitReasons :
           /\ CloseDeal(e, reason).err = ErrNoPosition
           /\ CloseDeal(e, reason).e = e

(* C35, as stated: a wiped account is absorbing.  Once the Exchange is     *)
(* flat with usd = 0 (after a liquidation, or constructed with starting    *)
(* USD <= 0) no order is appended to the history again and usd stays 0     *)
(* under any calls; every OpenLong and OpenShort fails with                *)
(* InvalidFraction, every CloseDeal with NoPosition, and queued limits are *)
(* only removed without executing.                                         *)
WipedIsAbsorbing ==
    /\ [](Wiped(ex) => CallsRefused(ex, ErrInvalidFraction))
    /\ [][StaysWiped]_vars

(* C35, amended: once the Exchange is flat with usd = 0 no order is        *)
(* appended to the history again and usd stays 0 under any calls; every    *)
(* OpenLong and OpenShort fails, with PriceNotSet while no tick has set a  *)
(* price and with InvalidFraction afterwards, every CloseDeal fails with   *)
(* NoPosition, and queued limits are only removed without executing.       *)
WipedIsAbsorbingOncePriced ==
    /\ [](Wiped(ex) => CallsRefused(ex, IF FLe(ex.lastPrice, Zero) THEN ErrPriceNotSet
                                        ELSE ErrInvalidFraction))
    /\ [][StaysWiped]_vars

\* a liquidation wiped the account; the one limit placed since has left the queue at a
\* later tick, unfilled and uncounted, and an open is refused
LimitGoneFromWipedAccount ==
    /\ Len(ex.orders) > 0
    /\ LastOrder(ex).Reason = ReasonLiquidate
    /\ Wiped(ex)
    /\ ex.tick > LastOrder(ex).Tick
    /\ ex.nextLimitID = 1
    /\ ex.pending = <<>>
    /\ DOMAIN ex.executedByID = {}
    /\ ex.limitFailed["position_state_mismatch"] = 0
    /\ OpenLong(ex, F(1, 2)).err = ErrInvalidFraction

====
